---- MODULE Spec2Model ----
(***************************************************************************)
(* go-nutt (package nnut): a typed key-value store over a B+tree (bbolt)   *)
(* with a buffered, checksummed, epoch-tagged write-ahead log.             *)
(*                                                                         *)
(* The model follows database.go (second revision, lines 257-835), the     *)
(* buffer-aware readers Store.Get / Store.GetBatch and the writers         *)
(* Store.Put / Store.Delete.  One bucket ("users") with one declared       *)
(* string index ("name") is modelled; a record is TestUser reduced to its  *)
(* key field UUID and its indexed field Name.                              *)
(***************************************************************************)
EXTENDS Integers, Sequences, FiniteSets, TLC

(***************************************************************************)
(* Bounds and configuration                                                *)
(***************************************************************************)
\* write calls started in one behaviour
MaxOps == 3
\* write calls started in one behaviour of the liveness specification
MaxLiveOps == 2
\* abrupt terminations in one behaviour
MaxCrashes == 1
\* Config.MaxBufferBytes, in units of EntryLen
MaxBufferBytes == 12
\* Config.FlushChannelSize
FlushChannelSize == 1

Keys == {"k1", "k2"}
Names == {"a", "b"}
Writers == {"w1"}
Flushers == {"bg", "user"}
Readers == {"r1"}

(***************************************************************************)
(* Records, operations, WAL frames                                         *)
(***************************************************************************)
Records == [UUID : Keys, Name : Names]
ZeroRec == [UUID |-> "", Name |-> ""]

\* type indexOperation struct { IndexName, OldValue, NewValue }
IndexOp(old, new) == [IndexName |-> "name", OldValue |-> old, NewValue |-> new]

\* type operation struct { Bucket, Key, Value, IsPut, IndexOperations, Epoch }
\* (single bucket, so Bucket is left out; IndexOperations is a set because the
\* deltas of distinct indexes touch distinct partitions)
MkOp(key, value, isPut, idxOps, epoch) ==
  [Key |-> key, Value |-> value, IsPut |-> isPut, IndexOperations |-> idxOps, Epoch |-> epoch]

ZeroOp == MkOp("", ZeroRec, FALSE, {}, 0)

\* Store.extractIndexValues: the indexed value of a record, "" when an index
\* name is missing from the map (the Go zero value of a map lookup)
extractIndexValues(value) == value.Name

KeyCode(k) == IF k = "" THEN 0 ELSE IF k = "k1" THEN 1 ELSE 2
NameCode(n) == IF n = "" THEN 0 ELSE IF n = "a" THEN 1 ELSE 2
BoolCode(b) == IF b THEN 1 ELSE 0

\* msgpack encoding of an operation: the field values in their fixed order
IdxCode(idxOps) ==
  IF idxOps = {} THEN <<0>>
  ELSE LET d == CHOOSE x \in idxOps : TRUE
       IN <<1, NameCode(d.OldValue), NameCode(d.NewValue)>>

EncodeOp(op) ==
  <<KeyCode(op.Key), NameCode(op.Value.Name), BoolCode(op.IsPut)>>
    \o IdxCode(op.IndexOperations) \o <<op.Epoch>>

RECURSIVE CrcFold(_, _)
CrcFold(bytes, acc) ==
  IF bytes = <<>> THEN acc
  ELSE CrcFold(Tail(bytes), (acc * 31 + Head(bytes) + 1) % 251)

\* crc32.ChecksumIEEE over the encoded operation
Checksum(op) == CrcFold(EncodeOp(op), 7)

\* len(encodedEntry): the encoded walEntry is the operation plus its checksum
EntryLen(op) == Len(EncodeOp(op)) + 1

\* A WAL frame as it lies in the file.  kind "entry" is an encoded walEntry
\* {Operation, Checksum}; kind "op" is an encoded bare operation (what
\* truncateWAL writes back); kind "junk" is a torn frame that does not decode.
EntryFrame(op) == [kind |-> "entry", op |-> op, crc |-> Checksum(op)]
BareFrame(op) == [kind |-> "op", op |-> op, crc |-> 0]
JunkFrame == [kind |-> "junk", op |-> ZeroOp, crc |-> 0]

\* decoder.Decode(&entry) with entry a walEntry: an encoded walEntry yields
\* its fields; an encoded bare operation is a map with none of walEntry's
\* fields, they are skipped and entry stays the zero walEntry
DecodeOk(frame) == frame.kind # "junk"
DecodeEntry(frame) ==
  IF frame.kind = "entry" THEN [Operation |-> frame.op, Checksum |-> frame.crc]
  ELSE [Operation |-> ZeroOp, Checksum |-> 0]

\* a replay that does not verify the checksum
FrameValidUnchecked(frame) == DecodeOk(frame)
ChecksumOk(frame) == Checksum(DecodeEntry(frame).Operation) = DecodeEntry(frame).Checksum
FrameValid(frame) == DecodeOk(frame) /\ ChecksumOk(frame)

(***************************************************************************)
(* The B+tree: base partition and the index partition of "name"            *)
(***************************************************************************)
EmptyMap == [k \in {} |-> ZeroRec]

\* bucket.Put / bucket.Delete on the base partition (a map from key to record)
BasePut(b, k, v) == [x \in (DOMAIN b) \cup {k} |-> IF x = k THEN v ELSE b[x]]
BaseDelete(b, k) == [x \in (DOMAIN b) \ {k} |-> b[x]]

\* the base half of one operation (Flush lines 558-568, replayWAL 472-482)
ApplyBase(b, op) == IF op.IsPut THEN BasePut(b, op.Key, op.Value) ELSE BaseDelete(b, op.Key)

\* one index delta: composite key OldValue + 0x00 + Key removed when OldValue
\* is not empty, NewValue + 0x00 + Key inserted when NewValue is not empty
ApplyIndexOp(ix, key, d) ==
  LET afterDelete == IF d.OldValue # "" THEN ix \ {<<d.OldValue, key>>} ELSE ix
  IN IF d.NewValue # "" THEN afterDelete \cup {<<d.NewValue, key>>} ELSE afterDelete

RECURSIVE ApplyIndexOps(_, _, _)
ApplyIndexOps(ix, key, ds) ==
  IF ds = {} THEN ix
  ELSE LET d == CHOOSE x \in ds : TRUE
       IN ApplyIndexOps(ApplyIndexOp(ix, key, d), key, ds \ {d})

ApplyIndex(ix, op) == ApplyIndexOps(ix, op.Key, op.IndexOperations)

\* the body of the db.Update transaction of Flush: every operation of the
\* snapshot, in map iteration order (the operations are on distinct keys)
RECURSIVE ApplyOpsBase(_, _)
ApplyOpsBase(b, ops) ==
  IF ops = {} THEN b
  ELSE LET op == CHOOSE x \in ops : TRUE
       IN ApplyOpsBase(ApplyBase(b, op), ops \ {op})

RECURSIVE ApplyOpsIndex(_, _)
ApplyOpsIndex(ix, ops) ==
  IF ops = {} THEN ix
  ELSE LET op == CHOOSE x \in ops : TRUE
       IN ApplyOpsIndex(ApplyIndex(ix, op), ops \ {op})

(***************************************************************************)
(* State                                                                   *)
(***************************************************************************)
VARIABLES
  base,            \* B+tree base partition "users": key -> record
  index,           \* B+tree index partition "users_index_name": composite keys
  hasBucket,       \* whether the base bucket has been created
  wal,             \* the WAL file: a sequence of frames
  buffer,          \* DB.operationsBuffer: key -> latest operation
  bytesInBuffer,   \* DB.bytesInBuffer
  currentEpoch,    \* DB.currentEpoch
  flushChannel,    \* number of signals pending in DB.flushChannel
  sched,           \* "free": tasks interleave; "serial": one caller, calls do not overlap
  phase,           \* "open", "down" (process terminated) or "replay" (Open running)
  replayPos,       \* replayWAL: index of the next frame to decode
  pc,              \* position of every task
  wop,             \* writer: the operation being written
  snap,            \* Flush: the local slice `operations` (as key -> operation)
  fepoch,          \* Flush: the value of currentEpoch last loaded by this call
  rkey,            \* reader: the keys of the call
  rcall,           \* reader: the last call, "none", "get" or "batch"
  rres,            \* reader: key -> outcome of the last call
  lastAck,         \* history: key -> outcome of the last acknowledged write
  rexp,            \* history: outcomes a running Get may return
  since,           \* history: operations appended to the WAL since the call's snapshot
  crashPending,    \* history: operations appended but not acknowledged at the crash
  walAtOpen,       \* history: the WAL file as the running Open found it
  indexAtOpen,     \* history: the index partition as the running Open found it
  damaged,         \* history: the positions of the WAL file damaged while the process was down
  baseAtOpen,      \* history: the base partition as the running Open found it
  nOps,            \* number of writes started
  nCrash,          \* number of abrupt terminations
  closeStep,       \* DB.Close: "none" until it is called, then the step it has reached
  wctx,            \* writer: whether the context of the call is cancelled
  werr,            \* writer: the error the last call returned
  wbatch,          \* batch writer: the keys, the old values read and the slice `ops`
  ackAtClose,      \* history: lastAck when Close was called
  failedOps,       \* history: the operations of the snapshots whose commit failed
  walMutex,        \* DB.walMutex: the task that holds it, or "none"
  operationsBufferMutex  \* DB.operationsBufferMutex: the task that holds it, or "none"

dbVars == <<base, index, hasBucket>>
memVars == <<buffer, bytesInBuffer, currentEpoch, flushChannel>>
taskVars == <<pc, wop, snap, fepoch, rkey, rcall, rres>>
callVars == <<closeStep, wctx, werr, wbatch, ackAtClose, failedOps, walMutex, operationsBufferMutex>>
histVars == <<sched, lastAck, rexp, since, crashPending, walAtOpen, baseAtOpen, indexAtOpen, damaged, nOps, nCrash>>
vars == <<base, index, hasBucket, wal, buffer, bytesInBuffer, currentEpoch, flushChannel,
          sched, phase, replayPos, pc, wop, snap, fepoch, rkey, rcall, rres,
          lastAck, rexp, since, crashPending, walAtOpen, baseAtOpen, indexAtOpen, damaged, nOps, nCrash,
          closeStep, wctx, werr, wbatch, ackAtClose, failedOps, walMutex, operationsBufferMutex>>

Tasks == Writers \cup Flushers \cup Readers

\* where a task rests between calls: the background flusher in its select
Home(t) == IF t = "bg" THEN "select" ELSE "idle"

\* the outcome of a read: the error and the value returned with it
Found(v) == [err |-> "nil", val |-> v]
KeyNotFound == [err |-> "KeyNotFound", val |-> ZeroRec]
BucketNotFound == [err |-> "BucketNotFound", val |-> ZeroRec]
NoWrite == [err |-> "none", val |-> ZeroRec]

\* what a read must return once the operation is the latest on its key
Outcome(op) == IF op.IsPut THEN Found(op.Value) ELSE KeyNotFound

\* no other task is inside a call
Alone(t) == \A u \in Tasks \ {t} : pc[u] = Home(u)

\* task t is at position `at` of its code and may take its next step
At(t, at) == phase = "open" /\ pc[t] = at /\ (sched = "serial" => Alone(t))

\* no batch call in progress
ZeroBatch == [keys |-> <<>>, old |-> EmptyMap, ops |-> <<>>]

\* OpenWithConfig lines 383-390: the fields of a new DB instance
NewDB ==
  /\ wal = <<>>
  /\ buffer = EmptyMap /\ bytesInBuffer = 0 /\ currentEpoch = 1 /\ flushChannel = 0
  /\ phase = "open" /\ replayPos = 1
  /\ pc = [t \in Tasks |-> Home(t)]
  /\ wop = [w \in Writers |-> ZeroOp]
  /\ snap = [f \in Flushers |-> EmptyMap]
  /\ fepoch = [f \in Flushers |-> 0]
  /\ rcall = [r \in Readers |-> "none"]
  /\ rres = [r \in Readers |-> EmptyMap]
  /\ lastAck = [k \in Keys |-> NoWrite]
  /\ rexp = [r \in Readers |-> {}]
  /\ since = [f \in Flushers |-> {}]
  /\ crashPending = {}
  /\ walAtOpen = <<>> /\ baseAtOpen = EmptyMap /\ indexAtOpen = {} /\ damaged = {}
  /\ nOps = 0 /\ nCrash = 0
  /\ closeStep = "none" /\ ackAtClose = [k \in Keys |-> NoWrite] /\ failedOps = {}
  /\ wctx = [w \in Writers |-> FALSE]
  /\ werr = [w \in Writers |-> "nil"]
  /\ wbatch = [w \in Writers |-> ZeroBatch]
  /\ walMutex = "none" /\ operationsBufferMutex = "none"

\* a fresh DB instance on a new file: no bucket yet, no call made
Start ==
  /\ base = EmptyMap /\ index = {} /\ hasBucket = FALSE
  /\ rkey = [r \in Readers |-> {}]
  /\ NewDB

Init == Start /\ sched = "free"

\* one caller: a call runs to its end before the next starts
InitSeq == Start /\ sched = "serial"

(***************************************************************************)
(* Buffer-aware read (Store.Get)                                           *)
(***************************************************************************)
\* a read that takes a buffered tombstone for a put
GetFromBufferNoTombstone(buf, k) == Found(buf[k].Value)
\* getLatestBufferedOperation and the branch of Get on it
GetFromBuffer(buf, k) == IF buf[k].IsPut THEN Found(buf[k].Value) ELSE KeyNotFound

\* the db.View transaction of Get
GetFromTree(b, made, k) ==
  IF ~made THEN BucketNotFound
  ELSE IF k \in DOMAIN b THEN Found(b[k]) ELSE KeyNotFound

\* Get as a whole when nothing runs between its two steps
GetValue(buf, b, made, k) ==
  IF k \in DOMAIN buf THEN GetFromBuffer(buf, k) ELSE GetFromTree(b, made, k)

(***************************************************************************)
(* Writers: Store.Put / Store.Delete, then DB.writeOperation               *)
(***************************************************************************)
\* oldIndexValues[name]: from the record Get returned, empty when Get failed
OldIndexValue(got) == IF got.err = "nil" THEN extractIndexValues(got.val) ELSE ""

\* a Put that emits a delta for the index whether or not its value changes
PutDeltasAlways(old, new) == {IndexOp(old, new)}
\* Store.Put: a delta for the index when old and new value differ
PutDeltas(old, new) == IF old # new THEN {IndexOp(old, new)} ELSE {}

\* a Delete that emits its index delta whatever the old value is
DeleteDeltasAlways(old) == {IndexOp(old, "")}
\* Store.Delete: a delta for the index when the old value is not empty
DeleteDeltas(old) == IF old # "" THEN {IndexOp(old, "")} ELSE {}

Deltas(op, got) ==
  IF op.IsPut THEN PutDeltas(OldIndexValue(got), extractIndexValues(op.Value))
  ELSE DeleteDeltas(OldIndexValue(got))

\* a running Get on the key may return the outcome of a write that starts now
NoteWrite(op) ==
  rexp' = [r \in Readers |->
             IF pc[r] = "view" /\ op.Key \in rkey[r] THEN rexp[r] \cup {Outcome(op)}
             ELSE rexp[r]]

\* Put / Delete up to the buffer lookup of their Get (the pre-image read)
WriteBegin(w, op) ==
  /\ At(w, "idle") /\ nOps < MaxOps
  /\ nOps' = nOps + 1
  /\ IF op.Key \in DOMAIN buffer
       THEN /\ wop' = [wop EXCEPT ![w] =
                         [op EXCEPT !.IndexOperations = Deltas(op, GetFromBuffer(buffer, op.Key))]]
            /\ pc' = [pc EXCEPT ![w] = "stamp"]
       ELSE /\ wop' = [wop EXCEPT ![w] = op]
            /\ pc' = [pc EXCEPT ![w] = "read"]
  /\ NoteWrite(op)
  /\ werr' = [werr EXCEPT ![w] = "nil"]
  /\ UNCHANGED <<dbVars, wal, memVars, phase, replayPos, snap, fepoch, rkey, rcall, rres,
                 sched, lastAck, since, crashPending, walAtOpen, baseAtOpen, indexAtOpen, damaged, nCrash,
                 closeStep, wctx, wbatch, ackAtClose, failedOps, walMutex, operationsBufferMutex>>

Put(w, value) == WriteBegin(w, MkOp(value.UUID, value, TRUE, {}, 0))

Delete(w, key) == WriteBegin(w, MkOp(key, ZeroRec, FALSE, {}, 0))

\* Get lines 387-392: a done context ends the Get before its transaction
Cancelled == [err |-> "cancelled", val |-> ZeroRec]

\* the db.View of the pre-image Get (not reached when the context is done),
\* and the index deltas derived from what Get returned
WriteRead(w) ==
  /\ At(w, "read")
  /\ wop' = [wop EXCEPT ![w].IndexOperations =
               Deltas(wop[w], IF wctx[w] THEN Cancelled
                              ELSE GetFromTree(base, hasBucket, wop[w].Key))]
  /\ pc' = [pc EXCEPT ![w] = "stamp"]
  /\ UNCHANGED <<dbVars, wal, memVars, phase, replayPos, snap, fepoch, rkey, rcall, rres, histVars, callVars>>

\* writeOperation line 702: op.Epoch = db.currentEpoch (read without a lock)
WriteStamp(w) ==
  /\ At(w, "stamp")
  /\ wop' = [wop EXCEPT ![w].Epoch = currentEpoch]
  /\ pc' = [pc EXCEPT ![w] = "append"]
  /\ UNCHANGED <<dbVars, wal, memVars, phase, replayPos, snap, fepoch, rkey, rcall, rres, histVars, callVars>>

\* DB.Close has closed db.walFile: a Write on it returns os.ErrClosed
WalClosed == closeStep \in {"walfile", "closed"}

\* writeOperation lines 728-737: the context is not done, and the frame is
\* appended under the WAL mutex
WriteAppend(w) ==
  /\ At(w, "append") /\ ~wctx[w] /\ ~WalClosed
  /\ wal' = Append(wal, EntryFrame(wop[w]))
  /\ pc' = [pc EXCEPT ![w] = "insert"]
  /\ since' = [f \in Flushers |->
                 IF pc[f] \in {"commit", "epoch", "truncate"} THEN since[f] \cup {wop[w]}
                 ELSE since[f]]
  /\ UNCHANGED <<dbVars, memVars, phase, replayPos, wop, snap, fepoch, rkey, rcall, rres,
                 sched, lastAck, rexp, crashPending, walAtOpen, baseAtOpen, indexAtOpen, damaged, nOps, nCrash, callVars>>

\* a buffer that keeps the first operation of a key instead of the last
BufferInsertKeepFirst(buf, op) ==
  IF op.Key \in DOMAIN buf THEN buf
  ELSE [k \in (DOMAIN buf) \cup {op.Key} |-> IF k = op.Key THEN op ELSE buf[k]]
\* db.operationsBuffer[key] = op
BufferInsert(buf, op) == [k \in (DOMAIN buf) \cup {op.Key} |-> IF k = op.Key THEN op ELSE buf[k]]

\* a write that also applies its operation to the B+tree
WriteInsertThrough(w) ==
  /\ At(w, "insert")
  /\ buffer' = BufferInsert(buffer, wop[w])
  /\ bytesInBuffer' = bytesInBuffer + EntryLen(wop[w])
  /\ base' = ApplyBase(base, wop[w])
  /\ index' = ApplyIndex(index, wop[w])
  /\ hasBucket' = TRUE
  /\ IF bytesInBuffer' >= MaxBufferBytes
       THEN /\ pc' = [pc EXCEPT ![w] = "signal"]
            /\ UNCHANGED lastAck
       ELSE /\ pc' = [pc EXCEPT ![w] = "idle"]
            /\ lastAck' = [lastAck EXCEPT ![wop[w].Key] = Outcome(wop[w])]
  /\ UNCHANGED <<wal, currentEpoch, flushChannel, phase, replayPos, wop, snap, fepoch,
                 rkey, rcall, rres, sched, rexp, since, crashPending, walAtOpen, baseAtOpen, indexAtOpen, damaged, nOps, nCrash, callVars>>
\* writeOperation lines 743-757: insert under the buffer mutex; the call
\* returns here unless the size threshold asks for a flush signal
WriteInsert(w) ==
  /\ At(w, "insert")
  /\ buffer' = BufferInsert(buffer, wop[w])
  /\ bytesInBuffer' = bytesInBuffer + EntryLen(wop[w])
  /\ IF bytesInBuffer' >= MaxBufferBytes
       THEN /\ pc' = [pc EXCEPT ![w] = "signal"]
            /\ UNCHANGED lastAck
       ELSE /\ pc' = [pc EXCEPT ![w] = "idle"]
            /\ lastAck' = [lastAck EXCEPT ![wop[w].Key] = Outcome(wop[w])]
  /\ UNCHANGED <<dbVars, wal, currentEpoch, flushChannel, phase, replayPos, wop, snap, fepoch,
                 rkey, rcall, rres, sched, rexp, since, crashPending, walAtOpen, baseAtOpen, indexAtOpen, damaged, nOps, nCrash, callVars>>

\* a write that never sends the flush request
WriteSignalNever(w) ==
  /\ At(w, "signal")
  /\ pc' = [pc EXCEPT ![w] = "idle"]
  /\ lastAck' = [lastAck EXCEPT ![wop[w].Key] = Outcome(wop[w])]
  /\ UNCHANGED <<dbVars, wal, memVars, phase, replayPos, wop, snap,
                 fepoch, rkey, rcall, rres, sched, rexp, since, crashPending, walAtOpen, baseAtOpen, indexAtOpen, damaged, nOps, nCrash, callVars>>
\* a write whose send blocks until the channel has room
WriteSignalBlocking(w) ==
  /\ At(w, "signal") /\ flushChannel < FlushChannelSize
  /\ flushChannel' = flushChannel + 1
  /\ pc' = [pc EXCEPT ![w] = "idle"]
  /\ lastAck' = [lastAck EXCEPT ![wop[w].Key] = Outcome(wop[w])]
  /\ UNCHANGED <<dbVars, wal, buffer, bytesInBuffer, currentEpoch, phase, replayPos, wop, snap,
                 fepoch, rkey, rcall, rres, sched, rexp, since, crashPending, walAtOpen, baseAtOpen, indexAtOpen, damaged, nOps, nCrash, callVars>>
\* writeOperation lines 750-756: non-blocking send, dropped when the channel is full
WriteSignal(w) ==
  /\ At(w, "signal")
  /\ flushChannel' = IF flushChannel < FlushChannelSize THEN flushChannel + 1 ELSE flushChannel
  /\ pc' = [pc EXCEPT ![w] = "idle"]
  /\ lastAck' = [lastAck EXCEPT ![wop[w].Key] = Outcome(wop[w])]
  /\ UNCHANGED <<dbVars, wal, buffer, bytesInBuffer, currentEpoch, phase, replayPos, wop, snap,
                 fepoch, rkey, rcall, rres, sched, rexp, since, crashPending, walAtOpen, baseAtOpen, indexAtOpen, damaged, nOps, nCrash, callVars>>

(***************************************************************************)
(* Flush and truncateWAL                                                   *)
(***************************************************************************)
\* the set of operations of a snapshot
OpsOf(m) == {m[k] : k \in DOMAIN m}

\* Flush lines 539-543: every buffered operation, tagged with the current epoch
Snapshot(buf, epoch) == [k \in DOMAIN buf |-> [buf[k] EXCEPT !.Epoch = epoch]]

\* truncateWAL lines 631-659: the operations kept.  A decode error ends the
\* loop, a checksum mismatch skips the frame, a verified frame is kept when
\* its epoch is greater than the committed one.
RECURSIVE RemainingOps(_, _)
RemainingOps(frames, committedEpoch) ==
  IF frames = <<>> THEN <<>>
  ELSE LET frame == Head(frames)
           rest == Tail(frames)
       IN IF ~DecodeOk(frame) THEN <<>>
          ELSE IF ~ChecksumOk(frame) THEN RemainingOps(rest, committedEpoch)
          ELSE IF DecodeEntry(frame).Operation.Epoch > committedEpoch
                 THEN <<DecodeEntry(frame).Operation>> \o RemainingOps(rest, committedEpoch)
                 ELSE RemainingOps(rest, committedEpoch)

\* a truncation that writes every frame back
TruncatedWALKeepAll(frames, committedEpoch) == frames

\* truncateWAL lines 662-677: the kept operations are written back with
\* encoder.Encode(op), each as a bare operation without its checksum
TruncatedWAL(frames, committedEpoch) ==
  LET kept == RemainingOps(frames, committedEpoch)
  IN [i \in 1..Len(kept) |-> BareFrame(kept[i])]

\* flushWAL line 526: the periodic tick of the background flusher
Tick ==
  /\ At("bg", "select")
  /\ pc' = [pc EXCEPT !["bg"] = "flush"]
  /\ UNCHANGED <<dbVars, wal, memVars, phase, replayPos, wop, snap, fepoch, rkey, rcall, rres,
                 histVars, callVars>>

\* flushWAL line 528: a flush request received from the flush channel
Signal ==
  /\ At("bg", "select") /\ flushChannel > 0
  /\ flushChannel' = flushChannel - 1
  /\ pc' = [pc EXCEPT !["bg"] = "flush"]
  /\ UNCHANGED <<dbVars, wal, buffer, bytesInBuffer, currentEpoch, phase, replayPos, wop, snap,
                 fepoch, rkey, rcall, rres, histVars, callVars>>

\* a caller invokes db.Flush()
UserFlush ==
  /\ At("user", "idle")
  /\ pc' = [pc EXCEPT !["user"] = "flush"]
  /\ UNCHANGED <<dbVars, wal, memVars, phase, replayPos, wop, snap, fepoch, rkey, rcall, rres,
                 histVars, callVars>>

\* a flush that goes on to its transaction whatever the snapshot holds
FlushSnapshotAlways(f) ==
  /\ At(f, "flush")
  /\ snap' = [snap EXCEPT ![f] = Snapshot(buffer, currentEpoch)]
  /\ buffer' = EmptyMap
  /\ bytesInBuffer' = 0
  /\ pc' = [pc EXCEPT ![f] = "commit"]
  /\ since' = [since EXCEPT ![f] = {}]
  /\ UNCHANGED <<dbVars, wal, currentEpoch, flushChannel, phase, replayPos, wop, fepoch,
                 rkey, rcall, rres, sched, lastAck, rexp, crashPending, walAtOpen, baseAtOpen,
                 indexAtOpen, damaged, nOps, nCrash, callVars>>

\* Flush lines 538-550: snapshot and clear under the buffer mutex
FlushSnapshot(f) ==
  /\ At(f, "flush")
  /\ snap' = [snap EXCEPT ![f] = Snapshot(buffer, currentEpoch)]
  /\ buffer' = EmptyMap
  /\ bytesInBuffer' = 0
  /\ pc' = [pc EXCEPT ![f] = IF DOMAIN buffer = {} THEN Home(f) ELSE "commit"]
  /\ since' = [since EXCEPT ![f] = {}]
  /\ UNCHANGED <<dbVars, wal, currentEpoch, flushChannel, phase, replayPos, wop, fepoch,
                 rkey, rcall, rres, sched, lastAck, rexp, crashPending, walAtOpen, baseAtOpen, indexAtOpen, damaged,
                 nOps, nCrash, callVars>>

\* a flush whose transaction writes nothing
FlushCommitNothing(f) ==
  /\ At(f, "commit")
  /\ pc' = [pc EXCEPT ![f] = "epoch"]
  /\ UNCHANGED <<dbVars, wal, memVars, phase, replayPos, wop, snap, fepoch, rkey, rcall, rres,
                 histVars, callVars>>

\* a flush that commits one transaction per operation of its snapshot
FlushCommitEach(f) ==
  /\ At(f, "commit")
  /\ \E k \in DOMAIN snap[f] :
       /\ base' = ApplyBase(base, snap[f][k])
       /\ index' = ApplyIndex(index, snap[f][k])
       /\ snap' = [snap EXCEPT ![f] = [x \in (DOMAIN snap[f]) \ {k} |-> snap[f][x]]]
       /\ pc' = [pc EXCEPT ![f] = IF DOMAIN snap[f] = {k} THEN "epoch" ELSE "commit"]
  /\ hasBucket' = TRUE
  /\ UNCHANGED <<wal, memVars, phase, replayPos, wop, fepoch, rkey, rcall, rres, histVars, callVars>>

\* Flush lines 552-592: one db.Update transaction applies the snapshot
FlushCommit(f) ==
  /\ At(f, "commit")
  /\ base' = ApplyOpsBase(base, OpsOf(snap[f]))
  /\ index' = ApplyOpsIndex(index, OpsOf(snap[f]))
  /\ hasBucket' = TRUE
  /\ pc' = [pc EXCEPT ![f] = "epoch"]
  /\ UNCHANGED <<wal, memVars, phase, replayPos, wop, snap, fepoch, rkey, rcall, rres, histVars, callVars>>

\* a failed transaction after which Flush goes on to truncateWAL
FlushCommitFailTruncates(f) ==
  /\ At(f, "commit")
  /\ failedOps' = failedOps \cup OpsOf(snap[f])
  /\ pc' = [pc EXCEPT ![f] = "epoch"]
  /\ UNCHANGED <<dbVars, wal, memVars, phase, replayPos, wop, snap, fepoch, rkey, rcall, rres,
                 histVars, closeStep, wctx, werr, wbatch, ackAtClose, walMutex, operationsBufferMutex>>
\* Flush lines 552 and 593-597: db.Update returns an error, bbolt has rolled
\* the transaction back; Flush logs the error and returns
FlushCommitFail(f) ==
  /\ At(f, "commit")
  /\ failedOps' = failedOps \cup OpsOf(snap[f])
  /\ pc' = [pc EXCEPT ![f] = Home(f)]
  /\ snap' = [snap EXCEPT ![f] = EmptyMap]
  /\ UNCHANGED <<dbVars, wal, memVars, phase, replayPos, wop, fepoch, rkey, rcall, rres,
                 histVars, closeStep, wctx, werr, wbatch, ackAtClose, walMutex, operationsBufferMutex>>

\* Flush line 600: the argument db.currentEpoch of truncateWAL is evaluated
FlushReadEpoch(f) ==
  /\ At(f, "epoch")
  /\ fepoch' = [fepoch EXCEPT ![f] = currentEpoch]
  /\ pc' = [pc EXCEPT ![f] = "truncate"]
  /\ UNCHANGED <<dbVars, wal, memVars, phase, replayPos, wop, snap, rkey, rcall, rres, histVars, callVars>>

\* truncateWAL lines 605-693, under the WAL mutex
FlushTruncate(f) ==
  /\ At(f, "truncate")
  /\ wal' = TruncatedWAL(wal, fepoch[f])
  /\ pc' = [pc EXCEPT ![f] = "load"]
  /\ since' = [since EXCEPT ![f] = {}]
  /\ UNCHANGED <<dbVars, memVars, phase, replayPos, wop, snap, fepoch, rkey, rcall, rres,
                 sched, lastAck, rexp, crashPending, walAtOpen, baseAtOpen, indexAtOpen, damaged, nOps, nCrash, callVars>>

\* Flush line 601: db.currentEpoch++ is a load and a store, outside any lock
FlushLoadEpoch(f) ==
  /\ At(f, "load")
  /\ fepoch' = [fepoch EXCEPT ![f] = currentEpoch]
  /\ pc' = [pc EXCEPT ![f] = "store"]
  /\ UNCHANGED <<dbVars, wal, memVars, phase, replayPos, wop, snap, rkey, rcall, rres, histVars, callVars>>

FlushStoreEpoch(f) ==
  /\ At(f, "store")
  /\ currentEpoch' = fepoch[f] + 1
  /\ pc' = [pc EXCEPT ![f] = Home(f)]
  /\ snap' = [snap EXCEPT ![f] = EmptyMap]
  /\ fepoch' = [fepoch EXCEPT ![f] = 0]
  /\ UNCHANGED <<dbVars, wal, buffer, bytesInBuffer, flushChannel, phase, replayPos, wop,
                 rkey, rcall, rres, histVars, callVars>>

(***************************************************************************)
(* Readers: Store.Get and Store.GetBatch                                   *)
(***************************************************************************)
\* the outcomes a Get issued now may return: the last acknowledged write of
\* the key, or a write of the key that is in flight
Expected(k) ==
  {lastAck[k]} \cup {Outcome(wop[w]) : w \in {x \in Writers : pc[x] # "idle" /\ wop[x].Key = k}}

\* Get lines 369-384: the buffer lookup; a hit returns at once
Get(r, k) ==
  /\ At(r, "idle")
  /\ rkey' = [rkey EXCEPT ![r] = {k}]
  /\ rcall' = [rcall EXCEPT ![r] = "get"]
  /\ rexp' = [rexp EXCEPT ![r] = Expected(k)]
  /\ IF k \in DOMAIN buffer
       THEN /\ rres' = [rres EXCEPT ![r] = [x \in {k} |-> GetFromBuffer(buffer, k)]]
            /\ pc' = pc
       ELSE /\ rres' = [rres EXCEPT ![r] = EmptyMap]
            /\ pc' = [pc EXCEPT ![r] = "view"]
  /\ UNCHANGED <<dbVars, wal, memVars, phase, replayPos, wop, snap, fepoch,
                 sched, lastAck, since, crashPending, walAtOpen, baseAtOpen, indexAtOpen, damaged, nOps, nCrash, callVars>>

\* Get lines 393-411: the read transaction on the base partition
GetView(r) ==
  /\ At(r, "view")
  /\ rres' = [rres EXCEPT ![r] =
                [x \in rkey[r] |-> GetFromTree(base, hasBucket, CHOOSE k \in rkey[r] : TRUE)]]
  /\ pc' = [pc EXCEPT ![r] = "idle"]
  /\ UNCHANGED <<dbVars, wal, memVars, phase, replayPos, wop, snap, fepoch, rkey, rcall,
                 histVars, callVars>>

\* GetBatch lines 427-443: results after the buffer pass.  A buffered put
\* gives a result; a buffered delete gives none and is not remembered.
BatchFromBuffer(buf, keys) ==
  [k \in {x \in keys \cap DOMAIN buf : buf[x].IsPut} |-> Found(buf[k].Value)]

\* GetBatch lines 450-484: every key without a result is looked up in the
\* base partition; a missing bucket leaves the results as they are
BatchFromTree(results, b, made, keys) ==
  IF ~made THEN results
  ELSE [k \in (DOMAIN results) \cup (keys \cap DOMAIN b) |->
          IF k \in DOMAIN results THEN results[k] ELSE Found(b[k])]

GetBatch(r, keys) ==
  /\ At(r, "idle")
  /\ rkey' = [rkey EXCEPT ![r] = keys]
  /\ rcall' = [rcall EXCEPT ![r] = "batch"]
  /\ rres' = [rres EXCEPT ![r] = BatchFromBuffer(buffer, keys)]
  /\ pc' = [pc EXCEPT ![r] = "batchview"]
  /\ rexp' = [rexp EXCEPT ![r] = {}]
  /\ UNCHANGED <<dbVars, wal, memVars, phase, replayPos, wop, snap, fepoch,
                 sched, lastAck, since, crashPending, walAtOpen, baseAtOpen, indexAtOpen, damaged, nOps, nCrash, callVars>>

GetBatchView(r) ==
  /\ At(r, "batchview")
  /\ rres' = [rres EXCEPT ![r] = BatchFromTree(rres[r], base, hasBucket, rkey[r])]
  /\ pc' = [pc EXCEPT ![r] = "idle"]
  /\ UNCHANGED <<dbVars, wal, memVars, phase, replayPos, wop, snap, fepoch, rkey, rcall,
                 histVars, callVars>>

(***************************************************************************)
(* Abrupt termination and recovery (OpenWithConfig, replayWAL)             *)
(***************************************************************************)
\* the process terminates: the files stay, everything in memory is gone
Crash ==
  /\ phase \in {"open", "replay"} /\ nCrash < MaxCrashes
  /\ nCrash' = nCrash + 1
  /\ phase' = "down"
  /\ crashPending' = IF phase = "open"
                       THEN {wop[w] : w \in {x \in Writers : pc[x] \in {"insert", "signal"}}}
                       ELSE crashPending
  /\ buffer' = EmptyMap /\ bytesInBuffer' = 0 /\ currentEpoch' = 1 /\ flushChannel' = 0
  /\ replayPos' = 1
  /\ pc' = [t \in Tasks |-> Home(t)]
  /\ wop' = [w \in Writers |-> ZeroOp]
  /\ snap' = [f \in Flushers |-> EmptyMap]
  /\ fepoch' = [f \in Flushers |-> 0]
  /\ rkey' = [r \in Readers |-> {}]
  /\ rcall' = [r \in Readers |-> "none"]
  /\ rres' = [r \in Readers |-> EmptyMap]
  /\ rexp' = [r \in Readers |-> {}]
  /\ since' = [f \in Flushers |-> {}]
  /\ damaged' = IF phase = "open" THEN {} ELSE damaged
  /\ closeStep' = "none"
  /\ wctx' = [w \in Writers |-> FALSE]
  /\ werr' = [w \in Writers |-> "nil"]
  /\ wbatch' = [w \in Writers |-> ZeroBatch]
  /\ walMutex' = "none" /\ operationsBufferMutex' = "none"
  /\ UNCHANGED <<dbVars, wal, sched, lastAck, walAtOpen, baseAtOpen, indexAtOpen, nOps, ackAtClose, failedOps>>

\* OpenWithConfig lines 379-393, replayWAL lines 420-433: the WAL is opened
Open ==
  /\ phase = "down"
  /\ phase' = "replay"
  /\ replayPos' = 1
  /\ walAtOpen' = wal
  /\ baseAtOpen' = base
  /\ indexAtOpen' = index
  /\ UNCHANGED <<dbVars, wal, memVars, taskVars, sched, lastAck, rexp, since, crashPending,
                 damaged, nOps, nCrash, callVars>>

\* a replay that restores the base entry of a frame but not its index deltas
ReplayApplyBaseOnly ==
  /\ phase = "replay" /\ replayPos <= Len(wal) /\ FrameValid(wal[replayPos])
  /\ base' = ApplyBase(base, DecodeEntry(wal[replayPos]).Operation)
  /\ hasBucket' = TRUE
  /\ replayPos' = replayPos + 1
  /\ UNCHANGED <<index, wal, memVars, phase, taskVars, histVars, callVars>>

\* replayWAL lines 464-511: a verified frame is applied in its own transaction
ReplayApply ==
  /\ phase = "replay" /\ replayPos <= Len(wal) /\ FrameValid(wal[replayPos])
  /\ base' = ApplyBase(base, DecodeEntry(wal[replayPos]).Operation)
  /\ index' = ApplyIndex(index, DecodeEntry(wal[replayPos]).Operation)
  /\ hasBucket' = TRUE
  /\ replayPos' = replayPos + 1
  /\ UNCHANGED <<wal, memVars, phase, taskVars, histVars, callVars>>

\* replayWAL lines 437-462: a frame that does not decode or whose checksum
\* does not match ends the replay; the WAL file is removed and Open goes on
ReplayReject ==
  /\ phase = "replay" /\ replayPos <= Len(wal) /\ ~FrameValid(wal[replayPos])
  /\ wal' = <<>>
  /\ phase' = "open"
  /\ replayPos' = 1
  /\ UNCHANGED <<dbVars, memVars, taskVars, histVars, callVars>>

\* replayWAL lines 438-440 and 515: end of file; the WAL file is removed,
\* OpenWithConfig creates it anew and starts the background flusher
ReplayDone ==
  /\ phase = "replay" /\ replayPos > Len(wal)
  /\ wal' = <<>>
  /\ phase' = "open"
  /\ replayPos' = 1
  /\ UNCHANGED <<dbVars, memVars, taskVars, histVars, callVars>>

\* the WAL file is damaged while the process is down: the checksum of frame
\* i is altered, or the file is cut inside frame i
Corrupt(i, torn) ==
  /\ phase = "down" /\ i \in 1..Len(wal) /\ FrameValid(wal[i])
  /\ wal' = IF torn THEN Append(SubSeq(wal, 1, i - 1), JunkFrame)
            ELSE [wal EXCEPT ![i].crc = (wal[i].crc + 1) % 251]
  /\ damaged' = IF torn THEN {j \in damaged : j < i} \cup {i} ELSE damaged \cup {i}
  /\ UNCHANGED <<dbVars, memVars, phase, replayPos, taskVars, sched, lastAck, rexp, since,
                 crashPending, walAtOpen, baseAtOpen, indexAtOpen, nOps, nCrash, callVars>>

(***************************************************************************)
(* Cancellation and WAL write errors in writeOperation                     *)
(***************************************************************************)
\* the context of the caller is cancelled, before the call or during it
Cancel(w) ==
  /\ phase = "open" /\ ~wctx[w]
  /\ wctx' = [wctx EXCEPT ![w] = TRUE]
  /\ UNCHANGED <<dbVars, wal, memVars, phase, replayPos, taskVars, histVars,
                 closeStep, werr, wbatch, ackAtClose, failedOps, walMutex, operationsBufferMutex>>

\* a write that appends its frame before it returns the error of its context
WriteCancelAfterAppend(w) ==
  /\ At(w, "append") /\ wctx[w]
  /\ wal' = Append(wal, EntryFrame(wop[w]))
  /\ werr' = [werr EXCEPT ![w] = "cancelled"]
  /\ wctx' = [wctx EXCEPT ![w] = FALSE]
  /\ pc' = [pc EXCEPT ![w] = "idle"]
  /\ UNCHANGED <<dbVars, memVars, phase, replayPos, wop, snap, fepoch, rkey, rcall, rres,
                 histVars, closeStep, wbatch, ackAtClose, failedOps, walMutex, operationsBufferMutex>>
\* writeOperation lines 728-732: the context is done, the call returns
\* ctx.Err() before it takes the WAL mutex (the next call has its own context)
WriteCancel(w) ==
  /\ At(w, "append") /\ wctx[w]
  /\ werr' = [werr EXCEPT ![w] = "cancelled"]
  /\ wctx' = [wctx EXCEPT ![w] = FALSE]
  /\ pc' = [pc EXCEPT ![w] = "idle"]
  /\ UNCHANGED <<dbVars, wal, memVars, phase, replayPos, wop, snap, fepoch, rkey, rcall, rres,
                 histVars, closeStep, wbatch, ackAtClose, failedOps, walMutex, operationsBufferMutex>>

\* a failed write that leaves its operation in the buffer
WriteAppendFailBuffered(w, torn) ==
  /\ At(w, "append") /\ ~wctx[w] /\ ~WalClosed
  /\ wal' = IF torn THEN Append(wal, JunkFrame) ELSE wal
  /\ buffer' = BufferInsert(buffer, wop[w])
  /\ werr' = [werr EXCEPT ![w] = "filesystem"]
  /\ pc' = [pc EXCEPT ![w] = "idle"]
  /\ UNCHANGED <<dbVars, bytesInBuffer, currentEpoch, flushChannel, phase, replayPos, wop, snap,
                 fepoch, rkey, rcall, rres, histVars, closeStep, wctx, wbatch, ackAtClose, failedOps, walMutex, operationsBufferMutex>>
\* writeOperation lines 735-740: walFile.Write returns an error, the call
\* returns FileSystemError; the file holds nothing of the frame or a part of it
WriteAppendFail(w, torn) ==
  /\ At(w, "append") /\ ~wctx[w] /\ ~WalClosed
  /\ wal' = IF torn THEN Append(wal, JunkFrame) ELSE wal
  /\ werr' = [werr EXCEPT ![w] = "filesystem"]
  /\ pc' = [pc EXCEPT ![w] = "idle"]
  /\ UNCHANGED <<dbVars, memVars, phase, replayPos, wop, snap, fepoch, rkey, rcall, rres,
                 histVars, closeStep, wctx, wbatch, ackAtClose, failedOps, walMutex, operationsBufferMutex>>

(***************************************************************************)
(* Batch writer: Store.DeleteBatch, then DB.writeOperations                *)
(***************************************************************************)
\* the key slices of a batch call: one or two distinct keys
BatchKeys == {<<k>> : k \in Keys} \cup {x \in Keys \X Keys : x[1] # x[2]}

\* the elements of a slice
Range(seq) == {seq[i] : i \in DOMAIN seq}

\* DeleteBatch lines 52-81: one delete per key, with an index delta when the
\* old record read by GetBatch has a value for the index
BatchOps(keys, old) ==
  [i \in DOMAIN keys |->
     MkOp(keys[i], ZeroRec, FALSE,
          DeleteDeltas(IF keys[i] \in DOMAIN old THEN extractIndexValues(old[keys[i]].val) ELSE ""),
          0)]

\* the frames of a batch, encoded into one byte slice
EntryFrames(ops) == [i \in DOMAIN ops |-> EntryFrame(ops[i])]

RECURSIVE BufferInsertAll(_, _)
\* writeOperations lines 819-822: db.operationsBuffer[key] = op for each op
BufferInsertAll(buf, ops) ==
  IF ops = <<>> THEN buf ELSE BufferInsertAll(BufferInsert(buf, Head(ops)), Tail(ops))

RECURSIVE TotalBytes(_)
\* writeOperations lines 772-800: the summed size of the encoded entries
TotalBytes(ops) == IF ops = <<>> THEN 0 ELSE EntryLen(Head(ops)) + TotalBytes(Tail(ops))

\* DeleteBatch line 46 and the buffer pass of its GetBatch
DeleteBatch(w, keys) ==
  /\ At(w, "idle") /\ nOps < MaxOps
  /\ nOps' = nOps + 1
  /\ wbatch' = [wbatch EXCEPT ![w] =
                  [keys |-> keys, old |-> BatchFromBuffer(buffer, Range(keys)), ops |-> <<>>]]
  /\ werr' = [werr EXCEPT ![w] = "nil"]
  /\ pc' = [pc EXCEPT ![w] = "bview"]
  /\ rexp' = [r \in Readers |->
                IF pc[r] = "view" /\ rkey[r] \cap Range(keys) # {} THEN rexp[r] \cup {KeyNotFound}
                ELSE rexp[r]]
  /\ UNCHANGED <<dbVars, wal, memVars, phase, replayPos, wop, snap, fepoch, rkey, rcall, rres,
                 sched, lastAck, since, crashPending, walAtOpen, baseAtOpen, indexAtOpen, damaged, nCrash,
                 closeStep, wctx, ackAtClose, failedOps, walMutex, operationsBufferMutex>>

\* GetBatch lines 445-449 and DeleteBatch lines 47-49: the context is done,
\* GetBatch returns ctx.Err() and DeleteBatch returns it wrapped
BatchViewCancel(w) ==
  /\ At(w, "bview") /\ wctx[w]
  /\ werr' = [werr EXCEPT ![w] = "cancelled"]
  /\ wctx' = [wctx EXCEPT ![w] = FALSE]
  /\ wbatch' = [wbatch EXCEPT ![w] = ZeroBatch]
  /\ pc' = [pc EXCEPT ![w] = "idle"]
  /\ UNCHANGED <<dbVars, wal, memVars, phase, replayPos, wop, snap, fepoch, rkey, rcall, rres,
                 histVars, closeStep, ackAtClose, failedOps, walMutex, operationsBufferMutex>>

\* the db.View of GetBatch, and the operations DeleteBatch builds
BatchView(w) ==
  /\ At(w, "bview") /\ ~wctx[w]
  /\ LET old == BatchFromTree(wbatch[w].old, base, hasBucket, Range(wbatch[w].keys))
     IN wbatch' = [wbatch EXCEPT ![w] =
                     [keys |-> wbatch[w].keys, old |-> old, ops |-> BatchOps(wbatch[w].keys, old)]]
  /\ pc' = [pc EXCEPT ![w] = "bstamp"]
  /\ UNCHANGED <<dbVars, wal, memVars, phase, replayPos, wop, snap, fepoch, rkey, rcall, rres,
                 histVars, closeStep, wctx, werr, ackAtClose, failedOps, walMutex, operationsBufferMutex>>

\* writeOperations lines 765-767: ops[i].Epoch = db.currentEpoch
BatchStamp(w) ==
  /\ At(w, "bstamp")
  /\ wbatch' = [wbatch EXCEPT ![w].ops =
                  [i \in DOMAIN wbatch[w].ops |-> [wbatch[w].ops[i] EXCEPT !.Epoch = currentEpoch]]]
  /\ pc' = [pc EXCEPT ![w] = "bappend"]
  /\ UNCHANGED <<dbVars, wal, memVars, phase, replayPos, wop, snap, fepoch, rkey, rcall, rres,
                 histVars, closeStep, wctx, werr, ackAtClose, failedOps, walMutex, operationsBufferMutex>>

\* writeOperations lines 803-807: the context is done
BatchCancel(w) ==
  /\ At(w, "bappend") /\ wctx[w]
  /\ werr' = [werr EXCEPT ![w] = "cancelled"]
  /\ wctx' = [wctx EXCEPT ![w] = FALSE]
  /\ wbatch' = [wbatch EXCEPT ![w] = ZeroBatch]
  /\ pc' = [pc EXCEPT ![w] = "idle"]
  /\ UNCHANGED <<dbVars, wal, memVars, phase, replayPos, wop, snap, fepoch, rkey, rcall, rres,
                 histVars, closeStep, ackAtClose, failedOps, walMutex, operationsBufferMutex>>

\* writeOperations lines 809-812: all frames are appended with one Write
BatchAppend(w) ==
  /\ At(w, "bappend") /\ ~wctx[w] /\ ~WalClosed
  /\ wal' = wal \o EntryFrames(wbatch[w].ops)
  /\ pc' = [pc EXCEPT ![w] = "binsert"]
  /\ since' = [f \in Flushers |->
                 IF pc[f] \in {"commit", "epoch", "truncate"}
                   THEN since[f] \cup Range(wbatch[w].ops)
                 ELSE since[f]]
  /\ UNCHANGED <<dbVars, memVars, phase, replayPos, wop, snap, fepoch, rkey, rcall, rres,
                 sched, lastAck, rexp, crashPending, walAtOpen, baseAtOpen, indexAtOpen, damaged, nOps, nCrash,
                 callVars>>

\* writeOperations lines 810-815: the Write returns an error after n whole
\* frames, with or without a part of the next one in the file
BatchAppendFail(w, n, torn) ==
  /\ At(w, "bappend") /\ ~wctx[w] /\ ~WalClosed
  /\ n \in 0..(Len(wbatch[w].ops) - 1)
  /\ wal' = wal \o SubSeq(EntryFrames(wbatch[w].ops), 1, n)
                \o (IF torn THEN <<JunkFrame>> ELSE <<>>)
  /\ werr' = [werr EXCEPT ![w] = "filesystem"]
  /\ wbatch' = [wbatch EXCEPT ![w] = ZeroBatch]
  /\ pc' = [pc EXCEPT ![w] = "idle"]
  /\ UNCHANGED <<dbVars, memVars, phase, replayPos, wop, snap, fepoch, rkey, rcall, rres,
                 histVars, closeStep, wctx, ackAtClose, failedOps, walMutex, operationsBufferMutex>>

\* the writes of a batch call are acknowledged when it returns nil
BatchAck(w) ==
  lastAck' = [k \in Keys |->
                IF k \in Range(wbatch[w].keys) THEN KeyNotFound ELSE lastAck[k]]

\* writeOperations lines 818-834: insert under the buffer mutex; the call
\* returns here unless the size threshold asks for a flush signal
BatchInsert(w) ==
  /\ At(w, "binsert")
  /\ buffer' = BufferInsertAll(buffer, wbatch[w].ops)
  /\ bytesInBuffer' = bytesInBuffer + TotalBytes(wbatch[w].ops)
  /\ IF bytesInBuffer' >= MaxBufferBytes
       THEN /\ pc' = [pc EXCEPT ![w] = "bsignal"]
            /\ UNCHANGED <<lastAck, wbatch>>
       ELSE /\ pc' = [pc EXCEPT ![w] = "idle"]
            /\ BatchAck(w)
            /\ wbatch' = [wbatch EXCEPT ![w] = ZeroBatch]
  /\ UNCHANGED <<dbVars, wal, currentEpoch, flushChannel, phase, replayPos, wop, snap, fepoch,
                 rkey, rcall, rres, sched, rexp, since, crashPending, walAtOpen, baseAtOpen, indexAtOpen, damaged,
                 nOps, nCrash, closeStep, wctx, werr, ackAtClose, failedOps, walMutex, operationsBufferMutex>>

\* writeOperations lines 827-833: non-blocking send, dropped when the channel is full
BatchSignal(w) ==
  /\ At(w, "bsignal")
  /\ flushChannel' = IF flushChannel < FlushChannelSize THEN flushChannel + 1 ELSE flushChannel
  /\ pc' = [pc EXCEPT ![w] = "idle"]
  /\ BatchAck(w)
  /\ wbatch' = [wbatch EXCEPT ![w] = ZeroBatch]
  /\ UNCHANGED <<dbVars, wal, buffer, bytesInBuffer, currentEpoch, phase, replayPos, wop, snap,
                 fepoch, rkey, rcall, rres, sched, rexp, since, crashPending, walAtOpen, baseAtOpen, indexAtOpen, damaged,
                 nOps, nCrash, closeStep, wctx, werr, ackAtClose, failedOps, walMutex, operationsBufferMutex>>

(***************************************************************************)
(* DB.Close (database.go lines 95-104) and the exit of the flusher         *)
(***************************************************************************)
\* Close line 96: close(db.closeChannel)
CloseSignal ==
  /\ At("user", "idle") /\ closeStep = "none"
  /\ closeStep' = "wait"
  /\ pc' = [pc EXCEPT !["user"] = "close"]
  /\ ackAtClose' = lastAck
  /\ UNCHANGED <<dbVars, wal, memVars, phase, replayPos, wop, snap, fepoch, rkey, rcall, rres,
                 histVars, wctx, werr, wbatch, failedOps, walMutex, operationsBufferMutex>>

\* flushWAL lines 531-533: the select receives from the closed channel and
\* the goroutine returns (closeWaitGroup.Done runs deferred)
FlusherExit ==
  /\ At("bg", "select") /\ closeStep # "none"
  /\ pc' = [pc EXCEPT !["bg"] = "exited"]
  /\ UNCHANGED <<dbVars, wal, memVars, phase, replayPos, wop, snap, fepoch, rkey, rcall, rres,
                 histVars, callVars>>

\* Close lines 97-99: closeWaitGroup.Wait() returns once the flusher has
\* exited; Close then calls db.Flush()
CloseWait ==
  /\ phase = "open" /\ closeStep = "wait" /\ pc["bg"] = "exited"
  /\ closeStep' = "flush"
  /\ pc' = [pc EXCEPT !["user"] = "flush"]
  /\ UNCHANGED <<dbVars, wal, memVars, phase, replayPos, wop, snap, fepoch, rkey, rcall, rres,
                 histVars, wctx, werr, wbatch, ackAtClose, failedOps, walMutex, operationsBufferMutex>>

\* Close lines 100-102: the final Flush has returned; db.walFile.Close()
CloseWalFile ==
  /\ At("user", "idle") /\ closeStep = "flush"
  /\ closeStep' = "walfile"
  /\ pc' = [pc EXCEPT !["user"] = "close"]
  /\ UNCHANGED <<dbVars, wal, memVars, phase, replayPos, wop, snap, fepoch, rkey, rcall, rres,
                 histVars, wctx, werr, wbatch, ackAtClose, failedOps, walMutex, operationsBufferMutex>>

\* Close line 103: return db.DB.Close()
CloseDB ==
  /\ phase = "open" /\ closeStep = "walfile"
  /\ closeStep' = "closed"
  /\ phase' = "closed"
  /\ pc' = [pc EXCEPT !["user"] = "idle"]
  /\ UNCHANGED <<dbVars, wal, memVars, replayPos, wop, snap, fepoch, rkey, rcall, rres,
                 histVars, wctx, werr, wbatch, ackAtClose, failedOps, walMutex, operationsBufferMutex>>

\* writeOperation lines 735-740 on the closed WAL file: nothing is written
\* and the call returns FileSystemError
WriteAppendClosed(w) ==
  /\ At(w, "append") /\ ~wctx[w] /\ WalClosed
  /\ werr' = [werr EXCEPT ![w] = "filesystem"]
  /\ pc' = [pc EXCEPT ![w] = "idle"]
  /\ UNCHANGED <<dbVars, wal, memVars, phase, replayPos, wop, snap, fepoch, rkey, rcall, rres,
                 histVars, closeStep, wctx, wbatch, ackAtClose, failedOps, walMutex, operationsBufferMutex>>

(***************************************************************************)
(* Specifications                                                          *)
(***************************************************************************)
\* the keys written and read where tasks interleave
HotKeys == {"k1"}

\* the steps of a write call after its first
WriteRun(w) ==
  \/ WriteRead(w)
  \/ WriteStamp(w)
  \/ WriteAppend(w)
  \/ WriteInsert(w)
  \/ WriteSignal(w)

\* a caller starts a write on one of the keys
WriteCall(w, keys) ==
  \/ \E v \in {x \in Records : x.UUID \in keys} : Put(w, v)
  \/ \E k \in keys : Delete(w, k)

WriterStep(w, keys) ==
  \/ WriteCall(w, keys)
  \/ WriteRun(w)

FlushStep(f) ==
  \/ FlushSnapshot(f)
  \/ FlushCommit(f)
  \/ FlushReadEpoch(f)
  \/ FlushTruncate(f)
  \/ FlushLoadEpoch(f)
  \/ FlushStoreEpoch(f)

FlusherStep ==
  \/ Tick
  \/ Signal
  \/ UserFlush
  \/ \E f \in Flushers : FlushStep(f)

ReaderStep(r, keys) ==
  \/ \E k \in keys : Get(r, k)
  \/ GetView(r)

Recovery ==
  \/ Open
  \/ ReplayApply
  \/ ReplayReject
  \/ ReplayDone

\* a writer, the background flusher and a user flush interleave freely
Next ==
  \/ \E w \in Writers : WriterStep(w, HotKeys)
  \/ FlusherStep

Spec == Init /\ [][Next]_vars

\* a writer, a reader and the background flusher interleave freely
NextRead ==
  \/ \E w \in Writers : WriterStep(w, HotKeys)
  \/ \E r \in Readers : ReaderStep(r, HotKeys)
  \/ Tick
  \/ Signal
  \/ FlushStep("bg")

SpecRead == Init /\ [][NextRead]_vars

\* writer and flushers as in Spec; the process may terminate abruptly at any
\* point and be opened again
NextCrash ==
  \/ Next
  \/ Crash
  \/ Recovery

SpecCrash == Init /\ [][NextCrash]_vars

BatchStep(r, keys) ==
  \/ \E ks \in (SUBSET keys) \ {{}} : GetBatch(r, ks)
  \/ GetBatchView(r)

\* one caller (InitSeq): writes, reads, batch reads and flushes on all keys
NextSeq ==
  \/ \E w \in Writers : WriterStep(w, Keys)
  \/ \E r \in Readers : ReaderStep(r, Keys)
  \/ \E r \in Readers : BatchStep(r, Keys)
  \/ UserFlush
  \/ FlushStep("user")

SpecSeq == InitSeq /\ [][NextSeq]_vars

\* one caller writes and flushes; the process terminates, the WAL file is
\* damaged while it is down, and the next Open replays it
NextCorrupt ==
  \/ \E w \in Writers : WriterStep(w, HotKeys)
  \/ UserFlush
  \/ FlushStep("user")
  \/ Crash
  \/ \E i \in 1..MaxOps, torn \in BOOLEAN : Corrupt(i, torn)
  \/ Recovery

SpecCorrupt == InitSeq /\ [][NextCorrupt]_vars

\* a writer and the background flusher; the ticker fires, and the flusher
\* goroutine and a write call in progress run whenever they can
NextLive ==
  \/ \E w \in Writers : nOps < MaxLiveOps /\ WriteCall(w, HotKeys)
  \/ \E w \in Writers : WriteRun(w)
  \/ Tick
  \/ Signal
  \/ FlushStep("bg")

SpecLive ==
  /\ Init /\ [][NextLive]_vars
  /\ WF_vars(Tick) /\ WF_vars(FlushStep("bg"))
  /\ \A w \in Writers : WF_vars(WriteRun(w))

CloseStep ==
  \/ CloseSignal
  \/ FlusherExit
  \/ CloseWait
  \/ CloseWalFile
  \/ CloseDB

\* a writer and the background flusher interleave freely; Close is called at
\* any point, also while a write call is in progress, and no write call
\* starts once Close has been called
NextClose ==
  \/ \E w \in Writers : closeStep = "none" /\ WriteCall(w, HotKeys)
  \/ \E w \in Writers : WriteRun(w)
  \/ \E w \in Writers : WriteAppendClosed(w)
  \/ Tick
  \/ Signal
  \/ \E f \in Flushers : FlushStep(f)
  \/ CloseStep

SpecClose == Init /\ [][NextClose]_vars

\* as SpecClose, with every write call returned before Close is called
NextCloseQuiet ==
  \/ \E w \in Writers : closeStep = "none" /\ WriteCall(w, HotKeys)
  \/ \E w \in Writers : WriteRun(w)
  \/ Tick
  \/ Signal
  \/ \E f \in Flushers : FlushStep(f)
  \/ (\A w \in Writers : pc[w] = "idle") /\ CloseSignal
  \/ FlusherExit
  \/ CloseWait
  \/ CloseWalFile
  \/ CloseDB

SpecCloseQuiet == Init /\ [][NextCloseQuiet]_vars

\* one caller (InitSeq) writes and flushes; the transaction of a Flush may
\* fail
NextFlushFail ==
  \/ \E w \in Writers : WriterStep(w, Keys)
  \/ UserFlush
  \/ FlushStep("user")
  \/ FlushCommitFail("user")

SpecFlushFail == InitSeq /\ [][NextFlushFail]_vars

\* the steps of a batch call after its first
BatchRun(w) ==
  \/ BatchView(w)
  \/ BatchStamp(w)
  \/ BatchAppend(w)
  \/ BatchInsert(w)
  \/ BatchSignal(w)

\* single and batch write calls of one caller
WriteCalls(w, keys) ==
  \/ WriterStep(w, keys)
  \/ \E ks \in BatchKeys : DeleteBatch(w, ks)
  \/ BatchRun(w)

\* one caller (InitSeq) writes, deletes in batches and flushes; the context
\* of a write call may be cancelled before the call or while it runs
NextCancel ==
  \/ \E w \in Writers : WriteCalls(w, Keys)
  \/ \E w \in Writers : Cancel(w)
  \/ \E w \in Writers : WriteCancel(w)
  \/ \E w \in Writers : BatchViewCancel(w)
  \/ \E w \in Writers : BatchCancel(w)
  \/ UserFlush
  \/ FlushStep("user")

SpecCancel == InitSeq /\ [][NextCancel]_vars

\* one caller (InitSeq) writes, deletes in batches and flushes; a Write on
\* the WAL file may fail
NextAppendFail ==
  \/ \E w \in Writers : WriteCalls(w, Keys)
  \/ \E w \in Writers, torn \in BOOLEAN : WriteAppendFail(w, torn)
  \/ \E w \in Writers, n \in 0..1, torn \in BOOLEAN : BatchAppendFail(w, n, torn)
  \/ UserFlush
  \/ FlushStep("user")

SpecAppendFail == InitSeq /\ [][NextAppendFail]_vars

(***************************************************************************)
(* Properties                                                              *)
(***************************************************************************)
\* the base partition holds the effect of a write with this outcome on key k
Holds(b, k, outcome) ==
  IF outcome.err = "nil" THEN k \in DOMAIN b /\ b[k] = outcome.val ELSE k \notin DOMAIN b

\* no call is running
AllHome == \A t \in Tasks : pc[t] = Home(t)

\* C1: durability.  When Open completes after an abrupt termination, the
\* base partition holds, for every key, the effect of the last acknowledged
\* write to that key (or of a write that was appended to the WAL but not yet
\* acknowledged when the process terminated).
C1_Durability ==
  [][(phase = "replay" /\ phase' = "open") =>
       \A k \in Keys :
         lastAck[k] # NoWrite =>
           \/ Holds(base', k, lastAck[k])
           \/ \E op \in crashPending : op.Key = k /\ Holds(base', k, Outcome(op))]_vars

\* C2: read-after-write under concurrency.  A Get issued after a write to
\* its key has returned observes that write, or a write to the key that
\* overlaps the Get.
C2_ReadAfterWrite ==
  \A r \in Readers :
    (rcall[r] = "get" /\ pc[r] = "idle" /\ NoWrite \notin rexp[r]) =>
      \A k \in rkey[r] : rres[r][k] \in rexp[r]

\* C4: concurrent flushes do not lose or reorder updates.  Once every call
\* has returned and the buffer has been flushed, the base partition holds,
\* for every key, the effect of the last acknowledged write to that key.
C4_NoLostUpdate ==
  (phase = "open" /\ AllHome /\ DOMAIN buffer = {}) =>
    \A k \in Keys : lastAck[k] # NoWrite => Holds(base, k, lastAck[k])

\* C5: truncation preserves concurrent appends.  An operation appended to
\* the WAL after a Flush took its snapshot and before that Flush truncates
\* the WAL is still in the WAL after the truncation.
C5_TruncationKeepsAppends ==
  [][\A f \in Flushers :
       (pc[f] = "truncate" /\ pc'[f] = "load") =>
         \A op \in since[f] : \E i \in DOMAIN wal' : wal'[i].op = op]_vars

\* the index partition holds exactly one composite key per base entry, the
\* one of its current indexed value
IndexConsistent(b, ix) ==
  /\ \A k \in DOMAIN b : <<extractIndexValues(b[k]), k>> \in ix
  /\ \A e \in ix : e[2] \in DOMAIN b /\ e[1] = extractIndexValues(b[e[2]])

\* C3: index/base consistency.  After any Flush completes (no call running,
\* nothing buffered) every base entry has its composite key in the index
\* partition and the index partition holds no other composite key.
C3_IndexConsistency ==
  (phase = "open" /\ AllHome /\ DOMAIN buffer = {}) => IndexConsistent(base, index)

\* the positions of the WAL frames on key k, and the operation of the last
FramesOn(k) == {i \in DOMAIN wal : wal[i].op.Key = k}
LastOpOn(k) == wal[CHOOSE i \in FramesOn(k) : \A j \in FramesOn(k) : j <= i].op

\* C6: latest-wins coalescing.  When a Flush has committed, the base entry
\* of every key written since the previous Flush is the value of the last
\* put on the key, or absent if the last operation on it was a delete.
C6_LatestWins ==
  \A f \in Flushers :
    pc[f] = "epoch" =>
      \A k \in Keys : FramesOn(k) # {} => Holds(base, k, Outcome(LastOpOn(k)))

\* a Flush has committed a window holding two different writes of one key
C6_Witness ==
  \E f \in Flushers, k \in Keys :
    /\ pc[f] = "epoch"
    /\ \E i \in FramesOn(k), j \in FramesOn(k) :
         i < j /\ Outcome(wal[i].op) # Outcome(wal[j].op) /\ wal[j].op = LastOpOn(k)
    /\ Holds(base, k, Outcome(LastOpOn(k)))

\* C7: quiescent buffer-aware read.  With calls not overlapping, Get returns
\* exactly the outcome of the last acknowledged write to its key: the value
\* of a put, KeyNotFound for a delete, before and after the write is flushed.
C7_QuiescentRead ==
  \A r \in Readers :
    (rcall[r] = "get" /\ pc[r] = "idle") =>
      \A k \in rkey[r] : NoWrite \notin rexp[r] => rexp[r] = {rres[r][k]}

\* Get returned KeyNotFound for a key whose tombstone is only in the buffer
\* while the base partition still holds the flushed value
C7_WitnessBuffered ==
  \E r \in Readers, k \in Keys :
    /\ rcall[r] = "get" /\ pc[r] = "idle" /\ rkey[r] = {k}
    /\ rres[r][k] = KeyNotFound /\ rexp[r] = {KeyNotFound}
    /\ k \in DOMAIN buffer /\ ~buffer[k].IsPut /\ k \in DOMAIN base

\* C8: GetBatch agrees with Get.  When GetBatch returns, its result holds a
\* key of the request exactly when Get of that key succeeds, with the value
\* Get returns.
C8_BatchAgreesWithGet ==
  [][\A r \in Readers :
       (pc[r] = "batchview" /\ pc'[r] = "idle") =>
         \A k \in rkey[r] :
           LET got == GetValue(buffer, base, hasBucket, k)
           IN /\ (k \in DOMAIN rres'[r]) <=> (got.err = "nil")
              /\ (k \in DOMAIN rres'[r]) => rres'[r][k] = got]_vars

\* the outcomes a write to key k can have
Outcomes(k) == {KeyNotFound} \cup {Found(v) : v \in {x \in Records : x.UUID = k}}

\* C9: eventual application.  With the ticker firing and the flusher running
\* (commits succeed), every acknowledged write reaches the base partition
\* unless a later write to its key is acknowledged, and once writes stop the
\* buffer is empty and the base partition holds the last acknowledged write
\* of every key from then on.
C9_EventualApplication ==
  /\ \A k \in HotKeys : \A o \in Outcomes(k) :
       (lastAck[k] = o) ~> (Holds(base, k, o) \/ lastAck[k] # o)
  /\ <>[](/\ DOMAIN buffer = {}
          /\ \A k \in HotKeys : lastAck[k] # NoWrite => Holds(base, k, lastAck[k]))

\* the flusher is back at its select, the buffer is empty and the base
\* partition holds the acknowledged put that overwrote an earlier one
C9_Witness ==
  \E k \in HotKeys :
    /\ pc["bg"] = "select" /\ DOMAIN buffer = {} /\ nOps >= 2
    /\ lastAck[k] # NoWrite /\ lastAck[k].err = "nil" /\ Holds(base, k, lastAck[k])

\* the first damaged position of the WAL file the running Open found
FirstDamaged == CHOOSE i \in damaged : \A j \in damaged : i <= j
RECURSIVE FrameOps(_)
FrameOps(frames) == IF frames = <<>> THEN <<>> ELSE <<Head(frames).op>> \o FrameOps(Tail(frames))
IntactOps == FrameOps(SubSeq(walAtOpen, 1, FirstDamaged - 1))

\* the base partition after a sequence of operations, applied in order
RECURSIVE InOrder(_, _)
InOrder(b, ops) == IF ops = <<>> THEN b ELSE InOrder(ApplyBase(b, Head(ops)), Tail(ops))

RECURSIVE InOrderIndex(_, _)
InOrderIndex(ix, ops) ==
  IF ops = <<>> THEN ix ELSE InOrderIndex(ApplyIndex(ix, Head(ops)), Tail(ops))

\* C11: recovery post-state.  When Open completes on a WAL with no damaged
\* frame, the base and index partitions are those Open found with every WAL
\* operation applied in WAL order, the WAL is empty, and no write was
\* admitted while the replay ran (no call started, nothing buffered).
C11_RecoveryPostState ==
  [][/\ (phase = "replay" /\ phase' = "open" /\ damaged = {}) =>
          /\ base' = InOrder(baseAtOpen, FrameOps(walAtOpen))
          /\ index' = InOrderIndex(indexAtOpen, FrameOps(walAtOpen))
          /\ wal' = <<>>
          /\ DOMAIN buffer' = {} /\ pc' = [t \in Tasks |-> Home(t)]
     /\ phase = "replay" => (nOps' = nOps /\ buffer' = buffer)]_vars

\* Open completed on an intact WAL of at least two frames whose replay
\* changed both partitions
C11_Witness ==
  /\ phase = "open" /\ nCrash > 0 /\ damaged = {} /\ wal = <<>>
  /\ Len(walAtOpen) >= 2
  /\ base = InOrder(baseAtOpen, FrameOps(walAtOpen)) /\ base # baseAtOpen
  /\ index = InOrderIndex(indexAtOpen, FrameOps(walAtOpen)) /\ index # indexAtOpen
  /\ pc = [t \in Tasks |-> Home(t)] /\ DOMAIN buffer = {}

\* C12: the WAL is empty after a quiescent flush.  When a Flush of a
\* non-empty buffer truncates the WAL and no writer appended since its
\* snapshot, the WAL holds no frame; every write adds one frame, so a later
\* write makes the WAL non-empty and the next such Flush empties it again.
C12_WalEmptyAfterFlush ==
  [][/\ \A f \in Flushers :
          (pc[f] = "truncate" /\ pc'[f] = "load" /\ since[f] = {}) => wal' = <<>>
     /\ \A w \in Writers :
          (pc[w] = "append" /\ pc'[w] = "insert") =>
            (Len(wal') = Len(wal) + 1 /\ wal'[Len(wal')].op = wop[w])]_vars

\* a second Flush has just emptied a WAL that a write after the first Flush
\* had made non-empty
C12_Witness ==
  \E f \in Flushers :
    /\ pc[f] = "load" /\ wal = <<>> /\ currentEpoch >= 2 /\ snap[f] # EmptyMap
    /\ \A k \in DOMAIN snap[f] : snap[f][k].Epoch >= 2

\* C13: atomic publication.  While the store is open the B+tree changes only
\* in the one transaction of a Flush, and that step publishes the whole
\* snapshot: the base effect of every operation of the snapshot and all
\* their index deltas, and nothing else; no state in between is ever there
\* for a read transaction to observe.
C13_AtomicPublication ==
  [][(phase = "open" /\ <<base, index>> # <<base', index'>>) =>
       \E f \in Flushers :
         /\ pc[f] = "commit" /\ pc'[f] = "epoch"
         /\ \A k \in DOMAIN snap[f] : Holds(base', k, Outcome(snap[f][k]))
         /\ \A k \in Keys \ DOMAIN snap[f] :
              /\ (k \in DOMAIN base') <=> (k \in DOMAIN base)
              /\ k \in DOMAIN base => base'[k] = base[k]
         /\ index' = ApplyOpsIndex(index, OpsOf(snap[f]))]_vars

\* a Flush has committed a snapshot of two keys, both with an index delta,
\* and both base entries and both composite keys are in the B+tree
C13_Witness ==
  \E f \in Flushers :
    /\ pc[f] = "epoch" /\ DOMAIN snap[f] = Keys
    /\ \A k \in Keys :
         /\ snap[f][k].IsPut /\ snap[f][k].IndexOperations # {}
         /\ Holds(base, k, Outcome(snap[f][k]))
         /\ <<extractIndexValues(snap[f][k].Value), k>> \in index

\* C14: flush idempotence.  A Flush that finds the buffer empty, as the
\* second of two Flush calls with no write in between does, returns at once
\* and leaves the B+tree, the buffer, bytesInBuffer, the WAL and the epoch
\* counter as they were: Flush(); Flush() ends in the state of Flush().
C14_FlushIdempotent ==
  [][\A f \in Flushers :
       (pc[f] = "flush" /\ pc'[f] # "flush" /\ phase' = "open" /\ DOMAIN buffer = {}) =>
         /\ pc'[f] = Home(f)
         /\ UNCHANGED <<base, index, hasBucket, wal, buffer, bytesInBuffer, currentEpoch>>]_vars

\* a second Flush is at its snapshot right after a first one that committed
\* and truncated: nothing buffered, the WAL empty, the epoch incremented
C14_Witness ==
  \E f \in Flushers :
    /\ pc[f] = "flush" /\ DOMAIN buffer = {} /\ bytesInBuffer = 0
    /\ wal = <<>> /\ currentEpoch = 2 /\ DOMAIN base # {}
    /\ \A t \in Tasks \ {f} : pc[t] = Home(t)

\* C15: Close signals, waits for the background flusher to exit, only then
\* runs its final Flush, then closes the WAL file and the B+tree, so no
\* background Flush runs once the final Flush has started; when Close has
\* returned the buffer is empty and every write acknowledged before Close
\* was called is in the base partition
C15_CloseOrdering ==
  /\ closeStep \in {"flush", "walfile", "closed"} => pc["bg"] = "exited"
  /\ closeStep \in {"walfile", "closed"} => pc["user"] \in {"close", "idle"}
  /\ closeStep = "closed" =>
       /\ DOMAIN buffer = {}
       /\ \A k \in Keys : ackAtClose[k] # NoWrite => Holds(base, k, ackAtClose[k])

\* C16: when the transaction of a Flush fails, the Flush returns with the
\* WAL holding all its frames, the epoch counter not incremented and the base
\* and index partitions as they were, and no call receives the error
C16_FailedFlushKeepsLog ==
  [][\A f \in Flushers :
       (pc[f] = "commit" /\ failedOps' # failedOps) =>
         /\ pc'[f] = Home(f)
         /\ wal' = wal /\ currentEpoch' = currentEpoch
         /\ <<base, index, hasBucket>>' = <<base, index, hasBucket>>
         /\ werr' = werr /\ rres' = rres]_vars

\* a Flush whose transaction failed has returned: the frames of its snapshot
\* are in the WAL, the epoch counter is still 1
C16_Witness ==
  /\ AllHome /\ failedOps # {} /\ currentEpoch = 1
  /\ Len(wal) >= 2 /\ \A op \in failedOps : \E i \in DOMAIN wal : wal[i] = EntryFrame(op)
  /\ base = EmptyMap

\* C17: when the transaction of a Flush fails, the operations of its snapshot
\* remain buffered until a Flush applies them: between calls, an operation
\* of a failed snapshot that is still the last acknowledged write of its key
\* is what Get returns for the key, and it is in the buffer or in the base
\* partition
C17_FailedFlushRetried ==
  \A op \in failedOps :
    (AllHome /\ lastAck[op.Key] = Outcome(op)) =>
      /\ GetValue(buffer, base, hasBucket, op.Key) = Outcome(op)
      /\ \/ op.Key \in DOMAIN buffer /\ Outcome(buffer[op.Key]) = Outcome(op)
         \/ Holds(base, op.Key, Outcome(op))

\* the positions of a write call before its WAL append
PreAppend == {"read", "stamp", "append", "bview", "bstamp", "bappend"}

\* C18: a write call (single or batch) whose context is cancelled when it is
\* invoked, or before it reaches the WAL append, returns the cancellation
\* error and changes neither the WAL nor the buffer nor bytesInBuffer; a call
\* that has appended runs to its end and returns nil, and every frame of the
\* WAL is a whole frame
C18_CancelledWriteNoTrace ==
  [][/\ \A w \in Writers :
          (wctx[w] /\ pc[w] \in PreAppend \cup {"idle"} /\ pc'[w] # pc[w]) =>
            /\ wal' = wal /\ buffer' = buffer /\ bytesInBuffer' = bytesInBuffer
            /\ pc'[w] \in PreAppend \cup {"idle"}
            /\ pc'[w] = "idle" => werr'[w] = "cancelled"
     /\ \A w \in Writers :
          /\ (pc[w] = "insert" /\ pc'[w] # pc[w]) =>
                (werr'[w] = "nil" /\ pc'[w] \in {"idle", "signal"} /\ buffer'[wop[w].Key] = wop[w])
          /\ (pc[w] = "binsert" /\ pc'[w] # pc[w]) =>
                /\ werr'[w] = "nil" /\ pc'[w] \in {"idle", "bsignal"}
                /\ \A op \in Range(wbatch[w].ops) : buffer'[op.Key] = op
     /\ \A i \in DOMAIN wal' : FrameValid(wal'[i])]_vars

\* the second call was cancelled and has returned: the frame and the
\* buffered operation of the first call are all there is
C18_Witness ==
  \E w \in Writers :
    /\ pc[w] = "idle" /\ werr[w] = "cancelled" /\ nOps = 2
    /\ Len(wal) = 1 /\ DOMAIN buffer = {wal[1].op.Key}
    /\ bytesInBuffer = EntryLen(wal[1].op)

\* C19: when the Write on the WAL file fails, the call (single or batch)
\* returns a filesystem error, nothing is inserted into the buffer,
\* bytesInBuffer is unchanged, no flush signal is sent, and a Get of any key
\* returns after the call what it returned before it
C19_AppendFailureNoEffect ==
  [][\A w \in Writers :
       (pc[w] \in {"append", "bappend"} /\ pc'[w] = "idle" /\ ~wctx[w]) =>
         /\ werr'[w] = "filesystem"
         /\ buffer' = buffer /\ bytesInBuffer' = bytesInBuffer
         /\ flushChannel' = flushChannel
         /\ lastAck' = lastAck
         /\ \A k \in Keys :
              GetValue(buffer', base', hasBucket', k) = GetValue(buffer, base, hasBucket, k)]_vars

\* a put of k1 has failed after a put of k2 succeeded: part of its frame is
\* in the WAL file, the buffer holds k2 alone and Get(k1) finds nothing
C19_Witness ==
  \E w \in Writers :
    /\ pc[w] = "idle" /\ werr[w] = "filesystem"
    /\ wop[w].Key = "k1" /\ wop[w].IsPut
    /\ DOMAIN buffer = {"k2"} /\ ~hasBucket
    /\ Len(wal) = 2 /\ wal[2] = JunkFrame
    /\ GetValue(buffer, base, hasBucket, "k1") = BucketNotFound

QNames == {"", "a", "b"}
Ages == {1, 2}
Users == [UUID : Keys, Name : QNames, Age : Ages]

\* NewStore: indexFields maps an index name, fieldMap a field name, to a field
indexFields == {"Name"}
fieldMap == {"UUID", "Name", "Age"}

\* type Operator
Equals == 0
GreaterThan == 1
LessThan == 2
GreaterThanOrEqual == 3
LessThanOrEqual == 4
Operators == {Equals, GreaterThan, LessThan, GreaterThanOrEqual, LessThanOrEqual}

\* type Sorting
Unsorted == 0
Ascending == 1
Descending == 2

\* an interface{} value: its dynamic type and the value of that type
StringValue(s) == [kind |-> "string", str |-> s, int |-> 0]
IntValue(i) == [kind |-> "int", str |-> "", int |-> i]

\* type Condition struct { Field, Value, Operator }
Condition(field, value, operator) == [Field |-> field, Value |-> value, Operator |-> operator]

\* byte order of the strings of the model: "" < "a" < "b" < "k1" < "k2"
StrOrd(s) == IF s \in Keys THEN 2 + KeyCode(s) ELSE NameCode(s)

\* reflect.ValueOf(item).Field(fieldIndex).Interface()
FieldValue(item, field) ==
  IF field = "Age" THEN IntValue(item.Age) ELSE StringValue(item[field])

\* compare: -1, 0 or 1 for two strings or two ints, 0 for anything else
compare(a, b) ==
  IF a.kind = "string" /\ b.kind = "string"
    THEN IF StrOrd(a.str) < StrOrd(b.str) THEN -1
         ELSE IF StrOrd(a.str) > StrOrd(b.str) THEN 1 ELSE 0
  ELSE IF a.kind = "int" /\ b.kind = "int"
    THEN IF a.int < b.int THEN -1 ELSE IF a.int > b.int THEN 1 ELSE 0
  ELSE 0

\* Store.matchesCondition
matchesCondition(item, condition) ==
  IF condition.Field \in fieldMap
    THEN LET fieldValue == FieldValue(item, condition.Field)
         IN CASE condition.Operator = Equals -> fieldValue = condition.Value
              [] condition.Operator = GreaterThan -> compare(fieldValue, condition.Value) > 0
              [] condition.Operator = LessThan -> compare(fieldValue, condition.Value) < 0
              [] condition.Operator = GreaterThanOrEqual -> compare(fieldValue, condition.Value) >= 0
              [] condition.Operator = LessThanOrEqual -> compare(fieldValue, condition.Value) <= 0
              [] OTHER -> FALSE
    ELSE FALSE

\* the first n elements of a slice, all of them when n = 0 (maxKeys)
Capped(s, n) == IF n > 0 /\ Len(s) > n THEN SubSeq(s, 1, n) ELSE s

\* the order of a bbolt cursor over the index partition: composite keys
\* value + 0x00 + key, compared bytewise (0x00 is in no value and no key)
IndexLess(e, f) ==
  \/ StrOrd(e[1]) < StrOrd(f[1])
  \/ e[1] = f[1] /\ StrOrd(e[2]) < StrOrd(f[2])

\* cursor.First / cursor.Next over the index partition
RECURSIVE IndexCursor(_)
IndexCursor(ix) ==
  IF ix = {} THEN <<>>
  ELSE LET e == CHOOSE x \in ix : \A y \in ix \ {x} : IndexLess(x, y)
       IN <<e>> \o IndexCursor(ix \ {e})

\* cursor.First / cursor.Next over the keys of the base partition
RECURSIVE KeyCursor(_)
KeyCursor(ks) ==
  IF ks = {} THEN <<>>
  ELSE LET k == CHOOSE x \in ks : \A y \in ks \ {x} : StrOrd(x) < StrOrd(y)
       IN <<k>> \o KeyCursor(ks \ {k})

\* cursor.Seek(value + 0x00): the position of the first composite key that is
\* not below the prefix
RECURSIVE Seek(_, _, _)
Seek(es, value, i) ==
  IF i > Len(es) \/ StrOrd(es[i][1]) >= StrOrd(value) THEN i
  ELSE Seek(es, value, i + 1)

\* the loop "for keyBytes != nil && bytes.HasPrefix(keyBytes, value + 0x00)"
RECURSIVE SkipEquals(_, _, _)
SkipEquals(es, value, i) ==
  IF i > Len(es) \/ es[i][1] # value THEN i ELSE SkipEquals(es, value, i + 1)

\* the test of one loop of getKeysForConditionTx on the value part of a
\* composite key
InRange(value, operator, bound) ==
  CASE operator = Equals -> value = bound
    [] operator = GreaterThan -> StrOrd(value) > StrOrd(bound)
    [] operator = GreaterThanOrEqual -> StrOrd(value) >= StrOrd(bound)
    [] operator = LessThan -> StrOrd(value) < StrOrd(bound)
    [] operator = LessThanOrEqual -> StrOrd(value) <= StrOrd(bound)
    [] OTHER -> FALSE

\* where the cursor of a condition starts
ScanStart(es, condition) ==
  CASE condition.Operator = Equals -> Seek(es, condition.Value.str, 1)
    [] condition.Operator = GreaterThan ->
         SkipEquals(es, condition.Value.str, Seek(es, condition.Value.str, 1))
    [] condition.Operator = GreaterThanOrEqual -> Seek(es, condition.Value.str, 1)
    [] OTHER -> 1

\* the collecting loop of getKeysForConditionTx: stop at maxKeys keys, at the
\* end of the partition or at the first composite key out of the range
RECURSIVE CollectKeys(_, _, _, _, _)
CollectKeys(es, i, condition, maxKeys, keys) ==
  IF i > Len(es) THEN keys
  ELSE IF maxKeys > 0 /\ Len(keys) >= maxKeys THEN keys
  ELSE IF InRange(es[i][1], condition.Operator, condition.Value.str)
    THEN CollectKeys(es, i + 1, condition, maxKeys, Append(keys, es[i][2]))
  ELSE keys

\* sort.Strings
RECURSIVE SortStrings(_)
SortStrings(keys) ==
  IF keys = <<>> THEN <<>>
  ELSE LET i == CHOOSE x \in 1..Len(keys) :
                  \A y \in 1..Len(keys) :
                    \/ StrOrd(keys[x]) < StrOrd(keys[y])
                    \/ StrOrd(keys[x]) = StrOrd(keys[y]) /\ x <= y
       IN <<keys[i]>> \o SortStrings([j \in 1..(Len(keys) - 1) |->
                                        IF j < i THEN keys[j] ELSE keys[j + 1]])

\* a condition served by the index: the field has a declared index and the
\* value is a string
IsIndexed(condition) ==
  condition.Field \in indexFields /\ condition.Value.kind = "string"

\* Store.getKeysForConditionTx
getKeysForConditionTx(ix, condition, maxKeys) ==
  IF ~IsIndexed(condition) THEN <<>>
  ELSE LET es == IndexCursor(ix)
       IN SortStrings(CollectKeys(es, ScanStart(es, condition), condition, maxKeys, <<>>))

\* the counting loop of countKeysForConditionTx: for the range operators the
\* composite key that ends the range is counted before the loop breaks
RECURSIVE CountKeys(_, _, _, _, _)
CountKeys(es, i, condition, maxKeys, count) ==
  IF i > Len(es) THEN count
  ELSE IF condition.Operator = Equals
    THEN IF es[i][1] # condition.Value.str THEN count
         ELSE IF maxKeys > 0 /\ count + 1 >= maxKeys THEN count + 1
         ELSE CountKeys(es, i + 1, condition, maxKeys, count + 1)
  ELSE IF maxKeys > 0 /\ count + 1 >= maxKeys THEN count + 1
  ELSE IF ~InRange(es[i][1], condition.Operator, condition.Value.str) THEN count + 1
  ELSE CountKeys(es, i + 1, condition, maxKeys, count + 1)

\* Store.countKeysForConditionTx
countKeysForConditionTx(ix, condition, maxKeys) ==
  IF ~IsIndexed(condition) THEN 0
  ELSE LET es == IndexCursor(ix)
       IN CountKeys(es, ScanStart(es, condition), condition, maxKeys, 0)

\* Store.getAllKeysTx
getAllKeysTx(b, made, maxKeys) ==
  IF ~made THEN <<>> ELSE Capped(KeyCursor(DOMAIN b), maxKeys)

\* Store.countAllKeysTx
countAllKeysTx(b, made) == IF ~made THEN 0 ELSE Cardinality(DOMAIN b)

\* a slice back to front
Reverse(s) == [i \in 1..Len(s) |-> s[Len(s) + 1 - i]]

\* an index scan that walks forward whatever the sorting is
getKeysFromIndexTxForward(ix, sorting, maxKeys) ==
  LET es == IndexCursor(ix)
  IN Capped([i \in 1..Len(es) |-> es[i][2]], maxKeys)

\* Store.getKeysFromIndexTx: the record keys in cursor order, from the last
\* composite key backwards when the sorting is Descending
getKeysFromIndexTx(ix, sorting, maxKeys) ==
  LET es == IndexCursor(ix)
      keys == [i \in 1..Len(es) |-> es[i][2]]
  IN Capped(IF sorting = Descending THEN Reverse(keys) ELSE keys, maxKeys)

\* Store.countKeysFromIndexTx
countKeysFromIndexTx(ix) == Cardinality(ix)

\* every condition of the list matches the item
MatchesAll(item, conditions) ==
  \A i \in 1..Len(conditions) : matchesCondition(item, conditions[i])

\* one loop of scanForConditionsTx over a list of keys: keys without a record
\* are skipped, the loop ends once maxKeys keys are collected
RECURSIVE ScanKeys(_, _, _, _, _, _)
ScanKeys(b, conditions, list, i, maxKeys, keys) ==
  IF i > Len(list) THEN keys
  ELSE IF list[i] \in DOMAIN b /\ MatchesAll(b[list[i]], conditions)
    THEN IF maxKeys > 0 /\ Len(keys) + 1 >= maxKeys THEN Append(keys, list[i])
         ELSE ScanKeys(b, conditions, list, i + 1, maxKeys, Append(keys, list[i]))
  ELSE ScanKeys(b, conditions, list, i + 1, maxKeys, keys)

\* Store.scanForConditionsTx; candidates is a nil slice exactly when it is
\* empty, and then the whole base partition is scanned
scanForConditionsTx(b, made, conditions, candidates, maxKeys) ==
  IF ~made THEN <<>>
  ELSE IF candidates # <<>> THEN ScanKeys(b, conditions, candidates, 1, maxKeys, <<>>)
  ELSE ScanKeys(b, conditions, KeyCursor(DOMAIN b), 1, maxKeys, <<>>)

\* intersectSlices: the keys of other that are in base, in the order of other
intersectSlices(baseKeys, other) == SelectSeq(other, LAMBDA k : k \in Range(baseKeys))

\* sort.Slice on slices this short is an insertion sort: ascending in the
\* given rank, elements of equal rank in their order of arrival
RECURSIVE SortSlice(_, _)
SortSlice(s, rank) ==
  IF s = <<>> THEN <<>>
  ELSE LET i == CHOOSE x \in 1..Len(s) :
                  \A y \in 1..Len(s) :
                    \/ rank[x] < rank[y]
                    \/ rank[x] = rank[y] /\ x <= y
           rest == [j \in 1..(Len(s) - 1) |-> IF j < i THEN j ELSE j + 1]
       IN <<s[i]>> \o SortSlice([j \in 1..(Len(s) - 1) |-> s[rest[j]]],
                                [j \in 1..(Len(s) - 1) |-> rank[rest[j]]])

\* the position of a field value in the order of compare
ValueRank(v) == IF v.kind = "string" THEN StrOrd(v.str) ELSE v.int

\* Store.sortResults: by the field of the index, Descending when asked for,
\* ascending for Ascending and Unsorted
sortResults(results, indexName, sorting) ==
  IF indexName \notin indexFields THEN results
  ELSE SortSlice(results,
                 [i \in 1..Len(results) |->
                    IF sorting = Descending THEN 0 - ValueRank(FieldValue(results[i], indexName))
                    ELSE ValueRank(FieldValue(results[i], indexName))])

\* the loop "Intersect others into primary" of getCandidateKeysTx
RECURSIVE IntersectOthers(_, _, _, _)
IntersectOthers(ix, sorted, i, keys) ==
  IF i > Len(sorted) THEN keys
  ELSE IntersectOthers(ix, sorted, i + 1,
                       intersectSlices(keys, getKeysForConditionTx(ix, sorted[i], 0)))

\* Store.getCandidateKeysTx
getCandidateKeysTx(b, ix, made, conditions, maxKeys) ==
  IF Len(conditions) = 0 THEN getAllKeysTx(b, made, maxKeys)
  ELSE
    LET indexedConditions == SelectSeq(conditions, IsIndexed)
        nonIndexedConditions == SelectSeq(conditions, LAMBDA c : ~IsIndexed(c))
        conditionSizes ==
          SortSlice(indexedConditions,
                    [i \in 1..Len(indexedConditions) |->
                       countKeysForConditionTx(ix, indexedConditions[i], maxKeys)])
        keysMax == IF Len(indexedConditions) = 1 /\ Len(nonIndexedConditions) = 0
                     THEN maxKeys ELSE 0
        indexedKeys ==
          IF Len(indexedConditions) > 0
            THEN IntersectOthers(ix, conditionSizes, 2,
                                 getKeysForConditionTx(ix, conditionSizes[1], keysMax))
            ELSE <<>>
        nonIndexedKeys ==
          IF Len(nonIndexedConditions) > 0
            THEN scanForConditionsTx(b, made, nonIndexedConditions, indexedKeys, maxKeys)
            ELSE <<>>
    IN IF Len(nonIndexedConditions) = 0 THEN indexedKeys
       ELSE IF Len(indexedConditions) = 0 THEN nonIndexedKeys
       ELSE intersectSlices(indexedKeys, nonIndexedKeys)

\* type Query struct { Index, Limit, Offset, Sort, Conditions }
MkQuery(indexName, limit, offset, sorting, conditions) ==
  [Index |-> indexName, Limit |-> limit, Offset |-> offset, Sort |-> sorting,
   Conditions |-> conditions]

\* Store.validateQuery: nil when the query is accepted
validateQuery(query) ==
  /\ query.Limit >= 0 /\ query.Offset >= 0
  /\ query.Index # "" => query.Index \in indexFields
  /\ \A i \in 1..Len(query.Conditions) :
       /\ query.Conditions[i].Field \in fieldMap
       /\ query.Conditions[i].Value.kind \in {"string", "int"}

\* what Query and QueryCount return
QueryResult(err, items, count) == [err |-> err, items |-> items, count |-> count]

\* the candidate keys of Store.Query, lines 592-607
candidateKeysOf(b, ix, made, query) ==
  LET maxKeys == IF query.Limit > 0 THEN query.Offset + query.Limit ELSE 0
  IN IF Len(query.Conditions) > 0
       THEN getCandidateKeysTx(b, ix, made, query.Conditions, maxKeys)
     ELSE IF query.Index # "" THEN getKeysFromIndexTx(ix, query.Sort, maxKeys)
     ELSE getAllKeysTx(b, made, maxKeys)

\* a page that starts at the first candidate whatever the Offset is
keysToFetchFromFirst(candidateKeys, query) ==
  SubSeq(candidateKeys, 1,
         IF query.Limit > 0 /\ query.Limit < Len(candidateKeys)
           THEN query.Limit ELSE Len(candidateKeys))

\* the page of Store.Query, lines 609-618: candidateKeys[start:end]
keysToFetch(candidateKeys, query) ==
  LET start == IF query.Offset > Len(candidateKeys) THEN Len(candidateKeys) ELSE query.Offset
      end == IF query.Limit > 0 /\ start + query.Limit < Len(candidateKeys)
               THEN start + query.Limit ELSE Len(candidateKeys)
  IN SubSeq(candidateKeys, start + 1, end)

\* the fetch loop of Store.Query: keys without a record are skipped
FetchRecords(b, keys) ==
  LET found == SelectSeq(keys, LAMBDA k : k \in DOMAIN b)
  IN [i \in 1..Len(found) |-> b[found[i]]]

\* Store.Query
Query(b, ix, made, query) ==
  IF ~validateQuery(query) THEN QueryResult("InvalidQuery", <<>>, 0)
  ELSE IF ~made THEN QueryResult("BucketNotFound", <<>>, 0)
  ELSE LET results == FetchRecords(b, keysToFetch(candidateKeysOf(b, ix, made, query), query))
       IN QueryResult("nil",
                      IF query.Index # "" /\ Len(query.Conditions) > 0
                        THEN sortResults(results, query.Index, query.Sort)
                        ELSE results,
                      0)

\* Store.QueryCount
QueryCount(b, ix, made, query) ==
  IF ~validateQuery(query) THEN QueryResult("InvalidQuery", <<>>, 0)
  ELSE IF Len(query.Conditions) > 0
    THEN QueryResult("nil", <<>>, Len(getCandidateKeysTx(b, ix, made, query.Conditions, 0)))
  ELSE IF query.Index # "" THEN QueryResult("nil", <<>>, countKeysFromIndexTx(ix))
  ELSE QueryResult("nil", <<>>, countAllKeysTx(b, made))

\* Store.Query as one call of a reader: the read transaction sees one state
\* of the B+tree; rkey holds the query of the call
QueryCall(r) ==
  /\ At(r, "idle") /\ rcall[r] = "none"
  /\ rcall' = [rcall EXCEPT ![r] = "query"]
  /\ rres' = [rres EXCEPT ![r] = Query(base, index, hasBucket, rkey[r])]
  /\ UNCHANGED <<dbVars, wal, memVars, phase, replayPos, pc, wop, snap, fepoch, rkey,
                 histVars, callVars>>

\* Store.QueryCount as one call of a reader
QueryCountCall(r) ==
  /\ At(r, "idle") /\ rcall[r] = "none"
  /\ rcall' = [rcall EXCEPT ![r] = "count"]
  /\ rres' = [rres EXCEPT ![r] = QueryCount(base, index, hasBucket, rkey[r])]
  /\ UNCHANGED <<dbVars, wal, memVars, phase, replayPos, pc, wop, snap, fepoch, rkey,
                 histVars, callVars>>

\* the operation of a Put of a record whose key the store does not hold
FirstPut(u) == MkOp(u.UUID, u, TRUE, PutDeltas("", extractIndexValues(u)), 1)

\* the sets of records a store can hold: one record for a key
StoredSets == {us \in SUBSET Users : \A u \in us : \A v \in us : u.UUID = v.UUID => u = v}

\* a database opened on the file in which the records of us were put and
\* flushed; the bucket of an empty store exists when records were deleted
Reopened(us) ==
  /\ base = ApplyOpsBase(EmptyMap, {FirstPut(u) : u \in us})
  /\ index = ApplyOpsIndex({}, {FirstPut(u) : u \in us})
  /\ hasBucket \in {TRUE, us # {}}
  /\ NewDB

\* conditions per query
MaxConds == 2
\* largest Limit and largest Offset of a query
MaxLimit == 2
MaxOffset == 2

\* the conditions of the queries: both fields against a string and an int
Conditions ==
  {Condition(f, v, o) : f \in {"Name", "Age"}, v \in {StringValue("a"), IntValue(1)},
                        o \in Operators}

RECURSIVE ConditionLists(_)
ConditionLists(n) ==
  IF n = 0 THEN {<<>>}
  ELSE LET shorter == ConditionLists(n - 1)
       IN shorter \cup {Append(l, c) : l \in {x \in shorter : Len(x) = n - 1}, c \in Conditions}

Sortings == {Unsorted, Ascending, Descending}

\* queries without a page: up to MaxConds conditions
FilterQueries ==
  {MkQuery(ix, 0, 0, s, cs) : ix \in {"", "Name"}, s \in Sortings, cs \in ConditionLists(MaxConds)}

\* queries with a page: at most one condition
PageQueries ==
  {MkQuery(ix, l, o, s, cs) : ix \in {"", "Name"}, l \in 0..MaxLimit, o \in 0..MaxOffset,
                              s \in Sortings, cs \in {<<>>} \cup {<<c>> : c \in Conditions}}

InitQuery ==
  /\ \E us \in StoredSets : Reopened(us)
  /\ rkey \in [Readers -> FilterQueries]
  /\ sched = "serial"

InitPage ==
  /\ \E us \in StoredSets : Reopened(us)
  /\ rkey \in [Readers -> PageQueries]
  /\ sched = "serial"

NextQuery == \E r \in Readers : QueryCall(r) \/ QueryCountCall(r)

\* filter queries on flushed stores
SpecQuery == InitQuery /\ [][NextQuery]_vars

\* paged and sorted queries on flushed stores
SpecPage == InitPage /\ [][NextQuery]_vars

(***************************************************************************)
(* Properties of queries                                                   *)
(***************************************************************************)
\* the records a full scan of the base partition keeps when it evaluates
\* every condition on the decoded record
ReferenceFilter(b, conditions) ==
  {b[k] : k \in {x \in DOMAIN b : MatchesAll(b[x], conditions)}}

\* C21: on a flushed, index-consistent store a Query with Limit = 0 and
\* Offset = 0 returns exactly the base records that satisfy every condition,
\* the set a full scan with all conditions as residuals returns, also when
\* the indexed field of a record is the empty string
C21_QueryEqualsReference ==
  \A r \in Readers :
    (rcall[r] = "query" /\ rres[r].err = "nil") =>
      Range(rres[r].items) = ReferenceFilter(base, rkey[r].Conditions)

\* the page [offset, offset + limit) of a list, to its end when limit = 0
PageOf(s, offset, limit) ==
  LET start == IF offset < Len(s) THEN offset ELSE Len(s)
      end == IF limit = 0 \/ start + limit > Len(s) THEN Len(s) ELSE start + limit
  IN SubSeq(s, start + 1, end)

\* record u comes before record v in the order of the index: by indexed
\* value, records of one value by key
RecordLess(u, v) ==
  \/ StrOrd(u.Name) < StrOrd(v.Name)
  \/ u.Name = v.Name /\ StrOrd(u.UUID) < StrOrd(v.UUID)

\* the records of the index partition in ascending order: what the query
\* without conditions returns for Ascending without a page
AscendingScan(q) ==
  Query(base, index, hasBucket, [q EXCEPT !.Sort = Ascending, !.Limit = 0, !.Offset = 0]).items

SameRecords(q, items, expected) ==
  IF q.Index # "" /\ Len(q.Conditions) > 0
    THEN Range(items) = Range(expected) /\ Len(items) = Len(expected)
    ELSE items = expected

\* C23: with keys the final ordered candidate list, Query returns the records
\* of keys[start:end], start = min(Offset, len(keys)), end = min(start +
\* Limit, len(keys)) or len(keys) when Limit = 0: an Offset of at least the
\* candidate count gives an empty result, Limit = 0 returns every candidate
\* from start on, and so does a Limit above the candidate count
C23_Pagination ==
  \A r \in Readers :
    (rcall[r] = "query" /\ rres[r].err = "nil") =>
      LET q == rkey[r]
          keys == candidateKeysOf(base, index, hasBucket, q)
          start == IF q.Offset < Len(keys) THEN q.Offset ELSE Len(keys)
      IN /\ SameRecords(q, rres[r].items, FetchRecords(base, PageOf(keys, q.Offset, q.Limit)))
         /\ q.Offset >= Len(keys) => rres[r].items = <<>>
         /\ (q.Limit = 0 \/ q.Limit > Len(keys)) =>
              SameRecords(q, rres[r].items, FetchRecords(base, SubSeq(keys, start + 1, Len(keys))))
         /\ q.Limit > 0 => Len(rres[r].items) <= q.Limit

\* a Query with Offset 1 and Limit 1 on a store of two records returned the
\* second record alone
C23_Witness ==
  \E r \in Readers :
    /\ rcall[r] = "query" /\ rkey[r].Index = "" /\ rkey[r].Conditions = <<>>
    /\ rkey[r].Offset = 1 /\ rkey[r].Limit = 1
    /\ Cardinality(DOMAIN base) = 2
    /\ rres[r].items = <<base["k2"]>>

\* the lists that hold every record of a set once, ordered by the indexed
\* value in the direction of the sorting
Orderings(records, sorting) ==
  {s \in [1..Cardinality(records) -> records] :
     /\ \A i \in DOMAIN s : \A j \in DOMAIN s : i # j => s[i] # s[j]
     /\ \A i \in DOMAIN s : \A j \in DOMAIN s :
          i < j => IF sorting = Descending THEN StrOrd(s[i].Name) >= StrOrd(s[j].Name)
                   ELSE StrOrd(s[i].Name) <= StrOrd(s[j].Name)}

\* C24: a query with conditions, a sort Index and Limit > 0 does not stop
\* gathering candidates at Offset + Limit: its result is the page [Offset,
\* Offset + Limit) of all matching records ordered by the index field in
\* the requested direction
C24_SortedPageOfMatches ==
  \A r \in Readers :
    (/\ rcall[r] = "query" /\ rres[r].err = "nil"
     /\ rkey[r].Index # "" /\ Len(rkey[r].Conditions) > 0 /\ rkey[r].Limit > 0
     /\ rkey[r].Sort \in {Ascending, Descending}) =>
      \E all \in Orderings(ReferenceFilter(base, rkey[r].Conditions), rkey[r].Sort) :
        rres[r].items = PageOf(all, rkey[r].Offset, rkey[r].Limit)

\* the query without its page
Unpaged(q) == [q EXCEPT !.Limit = 0, !.Offset = 0]

\* C25: QueryCount ignores Offset and Limit and returns the number of
\* entries of the index partition when there are no conditions and an Index
\* is given, the number of keys of the base partition when there are neither
\* conditions nor Index, and otherwise the number of records that satisfy
\* all conditions; in each case this is the length of the result of the same
\* Query with Limit = 0 and Offset = 0
C25_QueryCount ==
  \A r \in Readers :
    (rcall[r] = "count" /\ rres[r].err = "nil") =>
      LET q == rkey[r]
      IN /\ rres[r].count = QueryCount(base, index, hasBucket, Unpaged(q)).count
         /\ (q.Conditions = <<>> /\ q.Index # "") => rres[r].count = Cardinality(index)
         /\ (q.Conditions = <<>> /\ q.Index = "") => rres[r].count = Cardinality(DOMAIN base)
         /\ q.Conditions # <<>> =>
              rres[r].count = Cardinality(ReferenceFilter(base, q.Conditions))
         /\ rres[r].count = Len(Query(base, index, hasBucket, Unpaged(q)).items)

\* the type of a condition value does not fit the type of the field
Incompatible(condition) ==
  condition.Value.kind # (IF condition.Field = "Age" THEN "int" ELSE "string")

\* C26: a residual condition whose value type is incompatible with the type
\* of the field, a string against an int field or an int against a string
\* field, matches no record, for every operator =, <, <=, >, >=
C26_IncompatibleMatchesNothing ==
  \A r \in Readers :
    (/\ rcall[r] = "query" /\ rres[r].err = "nil"
     /\ \E i \in 1..Len(rkey[r].Conditions) :
          ~IsIndexed(rkey[r].Conditions[i]) /\ Incompatible(rkey[r].Conditions[i])) =>
      rres[r].items = <<>>

(***************************************************************************)
(* Properties of the epoch counter and of the WAL file                     *)
(***************************************************************************)
\* Flush f has taken its buffer snapshot and has not yet truncated the WAL
InFlushWindow(f) == pc[f] \in {"commit", "epoch", "truncate"}

\* the epoch E of a Flush in its window: the value of db.currentEpoch it has
\* read for truncateWAL, or reads if it goes on now
FlushEpoch(f) == IF pc[f] = "truncate" THEN fepoch[f] ELSE currentEpoch

\* C27: every operation a writer stamps after a Flush at epoch E has taken
\* its buffer snapshot carries an epoch strictly greater than E, so that the
\* truncation filter "keep frames with epoch > E" keeps it
C27_EpochTagging ==
  [][\A w \in Writers :
       (pc[w] = "stamp" /\ pc'[w] = "append") =>
         \A f \in Flushers : InFlushWindow(f) => wop'[w].Epoch > FlushEpoch(f)]_vars

\* C28: the epoch counter is 1 at open, never decreases, is incremented by
\* exactly one by each Flush whose commit succeeded, when that Flush returns
\* after its truncation, and is left unchanged by a Flush over an empty
\* buffer and by a Flush whose commit failed, also when several Flush calls
\* run concurrently
C28_EpochCounter ==
  [][/\ currentEpoch' >= currentEpoch
     /\ \A f \in Flushers :
          /\ (pc[f] = "store" /\ pc'[f] = Home(f)) => currentEpoch' = currentEpoch + 1
          /\ (pc[f] \in {"flush", "commit"} /\ pc'[f] = Home(f)) => currentEpoch' = currentEpoch
          /\ (pc[f] = pc'[f] \/ pc'[f] # Home(f)) =>
               (currentEpoch' = currentEpoch \/ \E g \in Flushers : pc[g] = "store" /\ pc'[g] = Home(g))]_vars

\* C29: at every reachable state, also right after a truncation that
\* retains frames, the WAL file is a sequence of frames "operation followed
\* by its CRC-32" whose checksums match, so that a later recovery accepts
\* and applies every retained frame
C29_WalFileFormat ==
  \A i \in DOMAIN wal : wal[i].kind = "entry" /\ FrameValid(wal[i])

\* C30: WAL round trip.  For the operations writers produced since the
\* database was created, each with the index deltas computed when it was
\* written, replaying the WAL onto an empty B+tree yields the base and index
\* partitions that the Flush of the same operations, passed through the
\* buffer, commits; every reachable WAL is a prefix of a longer one
C30_WalRoundTrip ==
  [][\A f \in Flushers :
       (pc[f] = "commit" /\ pc'[f] = "epoch" /\ ~hasBucket) =>
         /\ base' = InOrder(EmptyMap, FrameOps(wal))
         /\ index' = InOrderIndex({}, FrameOps(wal))]_vars

(***************************************************************************)
(* Flush signalling, mutexes, index deltas, frame conditions               *)
(***************************************************************************)
\* a writer and the background flusher as in SpecLive, but the ticker is not
\* relied on: it may fire or stay silent for ever (WALFlushInterval is 15
\* minutes by default); the select of flushWAL takes a pending flush request
SpecSize ==
  /\ Init /\ [][NextLive]_vars
  /\ WF_vars(Signal) /\ WF_vars(FlushStep("bg"))
  /\ \A w \in Writers : WF_vars(WriteRun(w))

\* C31: size-triggered flush.  A write that leaves bytesInBuffer at or above
\* MaxBufferBytes goes on to the send on the flush channel; the send leaves a
\* request pending, and adds one when none was pending; and without any help
\* of the periodic tick the buffer is then drained and bytesInBuffer is 0.
C31_SizeTriggeredFlush ==
  /\ [][\A w \in Writers :
          /\ (pc[w] = "insert" /\ pc'[w] # "insert") =>
               ((bytesInBuffer' >= MaxBufferBytes) <=> (pc'[w] = "signal"))
          /\ (pc[w] = "signal" /\ pc'[w] = "idle") =>
               /\ flushChannel' > 0
               /\ flushChannel = 0 => flushChannel' = 1
               /\ flushChannel > 0 => flushChannel' \in {flushChannel, flushChannel + 1}]_vars
  /\ (bytesInBuffer >= MaxBufferBytes) ~> (bytesInBuffer = 0 /\ DOMAIN buffer = {})

\* the flusher has received the flush request of a write that filled the
\* buffer and is about to take its snapshot
C31_Witness ==
  /\ pc["bg"] = "flush" /\ flushChannel = 0 /\ bytesInBuffer >= MaxBufferBytes
  /\ \A w \in Writers : pc[w] = "idle"

\* a writer (single writes and batches of one key) and the background
\* flusher interleave freely; only the write calls are certain to go on, the
\* flusher goroutine may be delayed for ever
NextSignal ==
  \/ \E w \in Writers : WriterStep(w, HotKeys)
  \/ \E w \in Writers, k \in HotKeys : DeleteBatch(w, <<k>>)
  \/ \E w \in Writers : BatchRun(w)
  \/ Tick
  \/ Signal
  \/ FlushStep("bg")

SpecSignal ==
  /\ Init /\ [][NextSignal]_vars
  /\ \A w \in Writers : WF_vars(WriteRun(w)) /\ WF_vars(BatchRun(w))

\* the buffered operations, whatever epoch they carry
Untagged(ops) == {[op EXCEPT !.Epoch = 0] : op \in ops}

\* C32: a writer never blocks on the flush signal.  The send adds a request
\* when the channel has room and changes nothing when it is full, and the
\* call returns in both cases; every write call returns although nothing
\* makes the flusher receive; and whatever became of the signals, a Flush
\* takes every buffered operation into its snapshot and leaves the buffer
\* empty.
C32_WriterNeverBlocks ==
  /\ [][/\ \A w \in Writers :
             (pc[w] \in {"signal", "bsignal"} /\ pc'[w] # pc[w]) =>
               /\ pc'[w] = "idle" /\ werr'[w] = "nil"
               /\ flushChannel' = IF flushChannel < FlushChannelSize
                                    THEN flushChannel + 1 ELSE flushChannel
               /\ buffer' = buffer /\ bytesInBuffer' = bytesInBuffer /\ wal' = wal
        /\ \A f \in Flushers :
             (pc[f] = "flush" /\ pc'[f] # "flush") =>
               /\ Untagged(OpsOf(snap'[f])) = Untagged(OpsOf(buffer))
               /\ DOMAIN buffer' = {} /\ bytesInBuffer' = 0]_vars
  /\ \A w \in Writers : (pc[w] # "idle") ~> (pc[w] = "idle")

\* the channel is full, the flusher has received nothing, and the write
\* before the last one had already filled the buffer: the signal of the last
\* write was dropped and the call has returned
C32_Witness ==
  \E w \in Writers :
    /\ pc[w] = "idle" /\ pc["bg"] = "select" /\ flushChannel = FlushChannelSize
    /\ wop[w] # ZeroOp /\ wop[w] \in OpsOf(buffer)
    /\ bytesInBuffer - EntryLen(wop[w]) >= MaxBufferBytes

(***************************************************************************)
(* The two mutexes, statement by statement                                 *)
(***************************************************************************)
\* the positions whose next statement runs under db.walMutex: the Write of
\* writeOperation (735-737) and of writeOperations (810-812), and the body
\* of truncateWAL (605-693)
WalSection == {"append", "bappend", "truncate"}
\* the positions whose next statement runs under db.operationsBufferMutex:
\* the insert of writeOperation (743-748) and of writeOperations (818-825),
\* and the snapshot of Flush (538-546)
BufferSection == {"insert", "binsert", "flush"}

\* db.walMutex.Lock() (lines 605, 735, 810): waits until the mutex is free
walMutexLock(t) ==
  /\ phase = "open" /\ pc[t] \in WalSection
  /\ walMutex = "none"
  /\ walMutex' = t
  /\ UNCHANGED <<dbVars, wal, memVars, phase, replayPos, taskVars, histVars,
                 closeStep, wctx, werr, wbatch, ackAtClose, failedOps, operationsBufferMutex>>

\* a truncateWAL that returns without releasing the mutex
walMutexUnlockWriters(t) ==
  /\ phase = "open" /\ walMutex = t /\ pc[t] \notin WalSection /\ t \in Writers
  /\ walMutex' = "none"
  /\ UNCHANGED <<dbVars, wal, memVars, phase, replayPos, taskVars, histVars,
                 closeStep, wctx, werr, wbatch, ackAtClose, failedOps, operationsBufferMutex>>
\* db.walMutex.Unlock() (lines 737, 812; deferred in truncateWAL, line 606):
\* the statement under the mutex has run
walMutexUnlock(t) ==
  /\ phase = "open" /\ walMutex = t /\ pc[t] \notin WalSection
  /\ walMutex' = "none"
  /\ UNCHANGED <<dbVars, wal, memVars, phase, replayPos, taskVars, histVars,
                 closeStep, wctx, werr, wbatch, ackAtClose, failedOps, operationsBufferMutex>>

\* a writer that releases the WAL mutex only when it returns
operationsBufferMutexLockDeferred(t) ==
  /\ phase = "open" /\ pc[t] \in BufferSection
  /\ operationsBufferMutex = "none"
  /\ operationsBufferMutex' = t
  /\ UNCHANGED <<dbVars, wal, memVars, phase, replayPos, taskVars, histVars,
                 closeStep, wctx, werr, wbatch, ackAtClose, failedOps, walMutex>>
\* db.operationsBufferMutex.Lock() (lines 538, 743, 818): a writer comes
\* here after db.walMutex.Unlock() (737 before 743, 812 before 818)
operationsBufferMutexLock(t) ==
  /\ phase = "open" /\ pc[t] \in BufferSection
  /\ walMutex # t
  /\ operationsBufferMutex = "none"
  /\ operationsBufferMutex' = t
  /\ UNCHANGED <<dbVars, wal, memVars, phase, replayPos, taskVars, histVars,
                 closeStep, wctx, werr, wbatch, ackAtClose, failedOps, walMutex>>

\* db.operationsBufferMutex.Unlock() (lines 546, 748, 825)
operationsBufferMutexUnlock(t) ==
  /\ phase = "open" /\ operationsBufferMutex = t /\ pc[t] \notin BufferSection
  /\ operationsBufferMutex' = "none"
  /\ UNCHANGED <<dbVars, wal, memVars, phase, replayPos, taskVars, histVars,
                 closeStep, wctx, werr, wbatch, ackAtClose, failedOps, walMutex>>

\* task t may execute the statement at its position: it holds the mutex of
\* the section it is in and has released the mutex of the section it left
Runs(t) ==
  /\ (pc[t] \in WalSection) <=> (walMutex = t)
  /\ (pc[t] \in BufferSection) <=> (operationsBufferMutex = t)

\* getLatestBufferedOperation (lines 412-417) locks the buffer mutex, reads
\* and unlocks: it runs when the mutex is free
BufferReadable == operationsBufferMutex = "none"

\* Close line 103: db.DB.Close() returns.  The calls in progress go on: a
\* Write on the closed WAL file and a transaction on the closed B+tree
\* return an error, the buffer and the channel are still there.
CloseReturn ==
  /\ phase = "open" /\ closeStep = "walfile"
  /\ closeStep' = "closed"
  /\ pc' = [pc EXCEPT !["user"] = "idle"]
  /\ UNCHANGED <<dbVars, wal, memVars, phase, replayPos, wop, snap, fepoch, rkey, rcall, rres,
                 histVars, wctx, werr, wbatch, ackAtClose, failedOps, walMutex, operationsBufferMutex>>

\* the steps of the mutexes
MutexStep(t) ==
  \/ walMutexLock(t)
  \/ walMutexUnlock(t)
  \/ operationsBufferMutexLock(t)
  \/ operationsBufferMutexUnlock(t)

\* write calls started in one behaviour of the mutex specification
MaxMutexOps == 2

\* a writer, a reader, the background flusher and a caller of Flush and of
\* Close interleave statement by statement; every write is a Put of the same
\* record (the mutexes do not depend on the value written); no call starts
\* once Close has been called
NextMutex ==
  \/ \E t \in Tasks : MutexStep(t)
  \/ \E w \in Writers :
       /\ closeStep = "none" /\ nOps < MaxMutexOps /\ Runs(w) /\ BufferReadable
       /\ \E k \in HotKeys : Put(w, [UUID |-> k, Name |-> "a"])
  \/ \E w \in Writers : Runs(w) /\ WriteRead(w)
  \/ \E w \in Writers : Runs(w) /\ WriteStamp(w)
  \/ \E w \in Writers : Runs(w) /\ WriteAppend(w)
  \/ \E w \in Writers : Runs(w) /\ WriteAppendClosed(w)
  \/ \E w \in Writers : Runs(w) /\ WriteInsert(w)
  \/ \E w \in Writers : Runs(w) /\ WriteSignal(w)
  \/ \E r \in Readers, k \in HotKeys : closeStep = "none" /\ BufferReadable /\ Get(r, k)
  \/ \E r \in Readers : Runs(r) /\ GetView(r)
  \/ Runs("bg") /\ Tick
  \/ Runs("bg") /\ Signal
  \/ Runs("bg") /\ FlusherExit
  \/ closeStep = "none" /\ Runs("user") /\ UserFlush
  \/ \E f \in Flushers : Runs(f) /\ FlushSnapshot(f)
  \/ \E f \in Flushers : Runs(f) /\ FlushCommit(f)
  \/ \E f \in Flushers : Runs(f) /\ FlushReadEpoch(f)
  \/ \E f \in Flushers : Runs(f) /\ FlushTruncate(f)
  \/ \E f \in Flushers : Runs(f) /\ FlushLoadEpoch(f)
  \/ \E f \in Flushers : Runs(f) /\ FlushStoreEpoch(f)
  \/ Runs("user") /\ CloseSignal
  \/ CloseWait
  \/ Runs("user") /\ CloseWalFile
  \/ CloseReturn

\* the steps task t takes inside a call, but for its wait for the buffer mutex
Proceeds(t) ==
  \/ walMutexLock(t)
  \/ walMutexUnlock(t)
  \/ operationsBufferMutexUnlock(t)
  \/ t \in Writers /\ Runs(t) /\ (WriteRun(t) \/ WriteAppendClosed(t))
  \/ t \in Readers /\ Runs(t) /\ GetView(t)
  \/ t \in Flushers /\ Runs(t) /\ FlushStep(t)
  \/ t = "user" /\ (CloseWait \/ (Runs(t) /\ CloseWalFile) \/ CloseReturn)

\* every goroutine runs.  The buffer mutex is taken again and again by the
\* periodic Flush, so a task that waits for it relies on sync.Mutex handing
\* the lock to a waiter that has waited long enough (starvation mode); the
\* select of flushWAL chooses at random among its ready cases, so the closed
\* closeChannel is chosen in the end.
SpecMutex ==
  /\ Init /\ [][NextMutex]_vars
  /\ \A t \in Tasks : WF_vars(Proceeds(t))
  /\ \A t \in Writers \cup Flushers : SF_vars(operationsBufferMutexLock(t))
  /\ SF_vars(Runs("bg") /\ FlusherExit)

\* C33: the WAL mutex and the buffer mutex are never held at the same time by
\* one task: a writer holds the WAL mutex only around its append and the
\* buffer mutex only around its insert, and a Flush holds the buffer mutex
\* only around its snapshot and the WAL mutex only inside truncateWAL, never
\* during the B+tree transaction.
C33_NoNestedMutexes ==
  \A t \in Tasks :
    /\ ~(walMutex = t /\ operationsBufferMutex = t)
    /\ walMutex = t =>
         pc[t] \in IF t \in Writers THEN {"append", "insert", "idle"} ELSE {"truncate", "load"}
    /\ operationsBufferMutex = t =>
         pc[t] \in IF t \in Writers THEN {"insert", "signal", "idle"}
                   ELSE {"flush", "commit", Home(t)}
    /\ pc[t] \in {"epoch", "store"} => walMutex # t /\ operationsBufferMutex # t

\* a writer waits for the buffer mutex, which a Flush holds for its snapshot,
\* right after it released the WAL mutex, which another Flush now holds
C33_Witness ==
  \E w \in Writers, f \in Flushers, g \in Flushers :
    /\ pc[w] = "insert" /\ walMutex = g /\ pc[g] = "truncate"
    /\ operationsBufferMutex = f /\ pc[f] = "flush"

\* task t is inside no call and holds no mutex
Returned(t) ==
  /\ pc[t] \in {Home(t), "exited"}
  /\ walMutex # t /\ operationsBufferMutex # t

\* C40: deadlock freedom.  With a writer, a reader, calls of Flush, the
\* background flusher and one Close interleaved statement by statement, every
\* call that has started returns with its mutexes released: no task waits
\* for ever for the WAL mutex, the buffer mutex, room in the flush channel or
\* the exit of the flusher; and Close, once called, returns.
C40_DeadlockFreedom ==
  /\ \A t \in Tasks : ~Returned(t) ~> Returned(t)
  /\ (closeStep # "none") ~> (closeStep = "closed")

\* Close waits for the flusher to exit while the flusher is inside
\* truncateWAL with the WAL mutex, for which a writer waits
C40_Witness ==
  \E w \in Writers :
    /\ closeStep = "wait" /\ pc["bg"] = "truncate" /\ walMutex = "bg"
    /\ pc[w] = "append"

\* the indexed value of the record a buffer-aware read of key k finds now,
\* empty when it finds none
CurrentIndexValue(k) ==
  LET got == GetValue(buffer, base, hasBucket, k)
  IN IF got.err = "nil" THEN got.val.Name ELSE ""

\* C34: minimal index deltas on put.  When a Put has read the current record
\* of its key, the operation it builds carries a delta for the index exactly
\* when the indexed value of that record (empty when there is none) differs
\* from the indexed value of the new record, and the delta carries both
\* values; a Put that leaves the indexed field as it is carries no delta.
C34_MinimalPutDeltas ==
  [][\A w \in Writers :
       (pc[w] \in {"idle", "read"} /\ pc'[w] = "stamp" /\ wop'[w].IsPut) =>
         LET old == CurrentIndexValue(wop'[w].Key)
             new == wop'[w].Value.Name
         IN /\ old # new =>
                 wop'[w].IndexOperations =
                   {[IndexName |-> "name", OldValue |-> old, NewValue |-> new]}
            /\ old = new => wop'[w].IndexOperations = {}]_vars

\* a Put has found its record in the B+tree with the indexed value it writes
\* and carries no delta
C34_Witness ==
  \E w \in Writers :
    /\ pc[w] = "stamp" /\ wop[w].IsPut /\ wop[w].IndexOperations = {}
    /\ wop[w].Key \notin DOMAIN buffer
    /\ wop[w].Key \in DOMAIN base /\ base[wop[w].Key].Name = wop[w].Value.Name


(***************************************************************************)
(* Writes, reads, queries, flushes and recovery of one caller              *)
(***************************************************************************)
\* the queries of the caller: a scan of the base partition or of the index,
\* without a condition, with a condition on the indexed field, or with a
\* condition on a field without an index
StoreQueries ==
  {MkQuery(ix, 0, 0, Unsorted, cs) :
     ix \in {"", "Name"},
     cs \in {<<>>, <<Condition("Name", StringValue("b"), Equals)>>,
             <<Condition("UUID", StringValue("k1"), Equals)>>}}

\* Store.Query called with query q: one read transaction
QueryOn(r, q) ==
  /\ At(r, "idle")
  /\ rkey' = [rkey EXCEPT ![r] = q]
  /\ rcall' = [rcall EXCEPT ![r] = "query"]
  /\ rres' = [rres EXCEPT ![r] = Query(base, index, hasBucket, q)]
  /\ rexp' = [rexp EXCEPT ![r] = {}]
  /\ UNCHANGED <<dbVars, wal, memVars, phase, replayPos, pc, wop, snap, fepoch,
                 sched, lastAck, since, crashPending, walAtOpen, baseAtOpen, indexAtOpen,
                 damaged, nOps, nCrash, callVars>>

\* Store.QueryCount called with query q
QueryCountOn(r, q) ==
  /\ At(r, "idle")
  /\ rkey' = [rkey EXCEPT ![r] = q]
  /\ rcall' = [rcall EXCEPT ![r] = "count"]
  /\ rres' = [rres EXCEPT ![r] = QueryCount(base, index, hasBucket, q)]
  /\ rexp' = [rexp EXCEPT ![r] = {}]
  /\ UNCHANGED <<dbVars, wal, memVars, phase, replayPos, pc, wop, snap, fepoch,
                 sched, lastAck, since, crashPending, walAtOpen, baseAtOpen, indexAtOpen,
                 damaged, nOps, nCrash, callVars>>

\* write calls per behaviour of the caller
MaxStoreOps == 2

\* one caller (InitSeq): single and batch writes, reads, batch reads, queries
\* and flushes; the process may terminate and be opened again
NextStore ==
  \/ \E w \in Writers : nOps < MaxStoreOps /\ WriteCall(w, Keys)
  \/ \E w \in Writers, ks \in BatchKeys : nOps < MaxStoreOps /\ DeleteBatch(w, ks)
  \/ \E w \in Writers : WriteRun(w)
  \/ \E w \in Writers : BatchRun(w)
  \/ \E r \in Readers : ReaderStep(r, Keys)
  \/ \E r \in Readers : BatchStep(r, Keys)
  \/ \E r \in Readers, q \in StoreQueries : QueryOn(r, q)
  \/ \E r \in Readers, q \in StoreQueries : QueryCountOn(r, q)
  \/ UserFlush
  \/ FlushStep("user")
  \/ Crash
  \/ Open
  \/ ReplayApply
  \/ ReplayDone

SpecStore == InitSeq /\ [][NextStore]_vars

\* C35: Flush is the only path into the B+tree while the store is open.  A
\* step changes the base partition, the index partition or the existence of
\* the bucket only when it is the transaction of a Flush or, during Open, the
\* transaction replayWAL runs for a frame; every step of Put, Delete,
\* DeleteBatch, Get, GetBatch, Query and QueryCount leaves them as they are.
C35_FlushOnlyPathIntoTree ==
  [][(base' # base \/ index' # index \/ hasBucket' # hasBucket) =>
       \/ /\ phase = "open"
          /\ \E f \in Flushers : pc[f] = "commit" /\ pc'[f] = "epoch"
          /\ \A t \in Writers \cup Readers : pc'[t] = pc[t]
          /\ rres' = rres /\ wop' = wop /\ wbatch' = wbatch
       \/ /\ phase = "replay" /\ phase' = "replay"
          /\ replayPos' = replayPos + 1]_vars

\* a buffered put differs from the record the B+tree holds for its key, and
\* a Query has run since
C35_Witness ==
  \E r \in Readers, k \in Keys :
    /\ phase = "open" /\ rcall[r] = "query" /\ rres[r].err = "nil"
    /\ k \in DOMAIN buffer /\ buffer[k].IsPut
    /\ k \in DOMAIN base /\ base[k] # buffer[k].Value


\* what Get returns for key k when it is called now
GetNow(k) == GetValue(buffer, base, hasBucket, k)

\* the records Get returns now that satisfy the conditions of query q
Matching(q) ==
  {v \in Records : /\ GetNow(v.UUID) = Found(v)
                   /\ \A i \in 1..Len(q.Conditions) : matchesCondition(v, q.Conditions[i])}

\* Query and QueryCount return what Get returns, for query q
QueryAgreesWithGet(q) ==
  /\ Range(Query(base, index, hasBucket, q).items) = Matching(q)
  /\ QueryCount(base, index, hasBucket, q).count = Cardinality(Matching(q))

\* C39: Query reads only flushed state.  A step that acknowledges a put or a
\* delete without flushing it changes the result of no Query and of no
\* QueryCount; with every call returned, Get returns the buffered operation
\* of a key; and once a Flush has emptied the buffer, Query and QueryCount
\* return exactly the records Get returns.
C39_QueryReadsFlushedState ==
  /\ [][(\E w \in Writers : pc[w] \in {"insert", "signal", "binsert", "bsignal"} /\ pc'[w] = "idle") =>
          \A q \in StoreQueries :
            /\ Query(base', index', hasBucket', q) = Query(base, index, hasBucket, q)
            /\ QueryCount(base', index', hasBucket', q) = QueryCount(base, index, hasBucket, q)]_vars
  /\ []((phase = "open" /\ AllHome) =>
          /\ \A k \in DOMAIN buffer : GetNow(k) = Outcome(buffer[k])
          /\ DOMAIN buffer = {} => \A q \in StoreQueries : QueryAgreesWithGet(q))


(***************************************************************************)
(* Termination while Open replays the WAL                                  *)
(***************************************************************************)
\* terminations during a replay per behaviour
MaxReplayCrashes == 2

\* a termination during a replay that leaves only the frames not yet applied
CrashInReplayConsuming ==
  /\ phase = "replay" /\ nCrash < MaxCrashes + MaxReplayCrashes
  /\ nCrash' = nCrash + 1
  /\ phase' = "down"
  /\ replayPos' = 1
  /\ wal' = SubSeq(wal, replayPos, Len(wal))
  /\ UNCHANGED <<dbVars, memVars, taskVars, sched, lastAck, rexp, since, crashPending,
                 walAtOpen, baseAtOpen, indexAtOpen, damaged, nOps, callVars>>
\* the process terminates while replayWAL runs, between the transactions of
\* two frames or before os.Remove: the B+tree keeps the frames applied so
\* far and the WAL file is as Open found it
CrashInReplay ==
  /\ phase = "replay" /\ nCrash < MaxCrashes + MaxReplayCrashes
  /\ nCrash' = nCrash + 1
  /\ phase' = "down"
  /\ replayPos' = 1
  /\ UNCHANGED <<dbVars, wal, memVars, taskVars, sched, lastAck, rexp, since, crashPending,
                 walAtOpen, baseAtOpen, indexAtOpen, damaged, nOps, callVars>>

\* writer and flushers as in SpecCrash; the process may terminate again
\* while an Open replays the WAL
NextRecrash ==
  \/ NextCrash
  \/ CrashInReplay

SpecRecrash == Init /\ [][NextRecrash]_vars

\* the frames a replay applies: those before the first frame it rejects
RECURSIVE AcceptedFrames(_)
AcceptedFrames(frames) ==
  IF frames = <<>> \/ ~FrameValid(Head(frames)) THEN <<>>
  ELSE <<Head(frames)>> \o AcceptedFrames(Tail(frames))

\* the B+tree an uninterrupted replay of the frames ends in
ReplayedBase(b, frames) == InOrder(b, FrameOps(AcceptedFrames(frames)))
ReplayedIndex(ix, frames) == InOrderIndex(ix, FrameOps(AcceptedFrames(frames)))

\* C37: recovery is idempotent under a termination during recovery.  When
\* Open is called after a replay was interrupted, the WAL file is the one
\* the interrupted Open found, and replaying all of it onto the B+tree the
\* interruption left ends in the base and index partitions the uninterrupted
\* replay would have ended in; and every replay that runs to its end ends in
\* the partitions of the uninterrupted replay of the WAL it found.
C37_RecoveryIdempotent ==
  [][/\ (phase = "down" /\ nCrash > MaxCrashes /\ phase' = "replay") =>
          /\ wal = walAtOpen
          /\ ReplayedBase(base, wal) = ReplayedBase(baseAtOpen, walAtOpen)
          /\ ReplayedIndex(index, wal) = ReplayedIndex(indexAtOpen, walAtOpen)
     /\ (phase = "replay" /\ phase' = "open") =>
          /\ base' = ReplayedBase(baseAtOpen, walAtOpen)
          /\ index' = ReplayedIndex(indexAtOpen, walAtOpen)]_vars

\* Open completed after an interrupted replay, on a B+tree that is not empty
\* and a WAL of at least two frames whose replay changed both partitions
C37_Witness ==
  /\ phase = "open" /\ nCrash > MaxCrashes /\ Len(walAtOpen) >= 2
  /\ baseAtOpen # ReplayedBase(baseAtOpen, walAtOpen)
  /\ indexAtOpen # ReplayedIndex(indexAtOpen, walAtOpen)
  /\ baseAtOpen # EmptyMap /\ indexAtOpen # {}
  /\ base = ReplayedBase(baseAtOpen, walAtOpen)


(***************************************************************************)
(* A replay transaction that fails                                         *)
(***************************************************************************)
\* a failed replay that removes the WAL file as a completed replay does
ReplayApplyFailRemoves ==
  /\ phase = "replay" /\ replayPos <= Len(wal) /\ FrameValid(wal[replayPos])
  /\ phase' = "failed"
  /\ wal' = <<>>
  /\ UNCHANGED <<dbVars, memVars, replayPos, taskVars, histVars, callVars>>
\* replayWAL lines 485-510 and OpenWithConfig lines 392-396: db.Update
\* returns an error for a verified frame and bbolt rolls the transaction
\* back; replayWAL returns the error before os.Remove, OpenWithConfig closes
\* the bbolt database and returns the error without a DB instance
ReplayApplyFail ==
  /\ phase = "replay" /\ replayPos <= Len(wal) /\ FrameValid(wal[replayPos])
  /\ phase' = "failed"
  /\ UNCHANGED <<dbVars, wal, memVars, replayPos, taskVars, histVars, callVars>>

\* OpenWithConfig called again after an Open that returned an error
Reopen ==
  /\ phase = "failed"
  /\ phase' = "replay"
  /\ replayPos' = 1
  /\ walAtOpen' = wal
  /\ baseAtOpen' = base
  /\ indexAtOpen' = index
  /\ UNCHANGED <<dbVars, wal, memVars, taskVars, sched, lastAck, rexp, since, crashPending,
                 damaged, nOps, nCrash, callVars>>

\* one caller (InitSeq) writes and flushes; the process terminates, and the
\* transaction of a frame may fail while Open replays the WAL
NextReplayFail ==
  \/ \E w \in Writers : WriterStep(w, Keys)
  \/ UserFlush
  \/ FlushStep("user")
  \/ Crash
  \/ Open
  \/ ReplayApply
  \/ ReplayDone
  \/ ReplayApplyFail
  \/ Reopen

SpecReplayFail == InitSeq /\ [][NextReplayFail]_vars

\* C38: a replay apply failure is fatal and keeps the log.  When the
\* transaction of a verified frame fails during recovery, Open returns an
\* error and no database is open; the B+tree holds what Open found with
\* exactly the frames before the failing one applied in order; the WAL file
\* is the one Open found, unmodified; and until Open is called again neither
\* the B+tree nor the WAL changes and no call is admitted.
C38_ReplayFailureKeepsLog ==
  [][/\ (phase = "replay" /\ phase' \notin {"replay", "open", "down"}) =>
          /\ phase' = "failed"
          /\ replayPos <= Len(wal) /\ FrameValid(wal[replayPos])
          /\ wal' = wal /\ wal' = walAtOpen
          /\ base' = InOrder(baseAtOpen, FrameOps(SubSeq(walAtOpen, 1, replayPos - 1)))
          /\ index' = InOrderIndex(indexAtOpen, FrameOps(SubSeq(walAtOpen, 1, replayPos - 1)))
          /\ DOMAIN buffer' = {} /\ pc' = [t \in Tasks |-> Home(t)]
     /\ phase = "failed" =>
          /\ wal' = wal /\ base' = base /\ index' = index /\ hasBucket' = hasBucket
          /\ nOps' = nOps /\ buffer' = buffer /\ pc' = pc
          /\ phase' \in {"failed", "replay"}
          /\ phase' = "replay" => (replayPos' = 1 /\ walAtOpen' = wal)]_vars

\* Open returned an error at the second or a later frame of the WAL, with
\* the frames before it applied and both partitions changed
C38_Witness ==
  /\ phase = "failed" /\ replayPos >= 2 /\ replayPos <= Len(wal)
  /\ wal = walAtOpen
  /\ base # baseAtOpen /\ index # indexAtOpen
  /\ base = InOrder(baseAtOpen, FrameOps(SubSeq(walAtOpen, 1, replayPos - 1)))


(***************************************************************************)
(* Two writers on one key                                                  *)
(***************************************************************************)
\* two goroutines that call Put and Delete on the same store
TwoWriters == {"w1", "w2"}

\* a fresh DB instance on a new file, used by two writers
InitTwoWriters ==
  /\ base = EmptyMap /\ index = {} /\ hasBucket = FALSE
  /\ wal = <<>>
  /\ buffer = EmptyMap /\ bytesInBuffer = 0 /\ currentEpoch = 1 /\ flushChannel = 0
  /\ sched = "free" /\ phase = "open" /\ replayPos = 1
  /\ pc = [t \in Tasks \cup TwoWriters |-> Home(t)]
  /\ wop = [w \in TwoWriters |-> ZeroOp]
  /\ snap = [f \in Flushers |-> EmptyMap]
  /\ fepoch = [f \in Flushers |-> 0]
  /\ rkey = [r \in Readers |-> {}]
  /\ rcall = [r \in Readers |-> "none"]
  /\ rres = [r \in Readers |-> EmptyMap]
  /\ lastAck = [k \in Keys |-> NoWrite]
  /\ rexp = [r \in Readers |-> {}]
  /\ since = [f \in Flushers |-> {}]
  /\ crashPending = {}
  /\ walAtOpen = <<>> /\ baseAtOpen = EmptyMap /\ indexAtOpen = {} /\ damaged = {}
  /\ nOps = 0 /\ nCrash = 0
  /\ closeStep = "none" /\ ackAtClose = [k \in Keys |-> NoWrite] /\ failedOps = {}
  /\ wctx = [w \in TwoWriters |-> FALSE]
  /\ werr = [w \in TwoWriters |-> "nil"]
  /\ wbatch = [w \in TwoWriters |-> ZeroBatch]
  /\ walMutex = "none" /\ operationsBufferMutex = "none"

\* the two writers interleave freely, both on the key of HotKeys; the
\* critical sections of the WAL mutex and of the buffer mutex are one step
\* each
NextTwoWriters == \E w \in TwoWriters : WriterStep(w, HotKeys)

SpecTwoWriters == InitTwoWriters /\ [][NextTwoWriters]_vars

\* the operation of the last frame of the WAL on key k
LastOpOf(frames, k) ==
  LET at == {i \in DOMAIN frames : frames[i].op.Key = k}
  IN frames[CHOOSE i \in at : \A j \in at : j <= i].op

\* C36: WAL order and buffer order agree per key.  With every write call
\* returned, the operation the buffer retains for a key is the operation of
\* the last WAL frame on that key, and the value a replay of the WAL produces
\* for the key is the value Get returns, which is the value of the buffered
\* operation the next Flush applies.
C36_WalOrderIsBufferOrder ==
  (\A w \in TwoWriters : pc[w] = "idle") =>
    \A k \in DOMAIN buffer :
      /\ LastOpOf(wal, k) = buffer[k]
      /\ GetFromTree(ReplayedBase(base, wal), TRUE, k) = GetNow(k)
      /\ GetNow(k) = Outcome(buffer[k])

====
